---- MODULE Spec2Model ----
(***************************************************************************)
(* A model of alpycaclient.py: the Device base class (endpoint builder and *)
(* request executor), the device facades layered on it, the two failure    *)
(* classes and the CreateClient factory.                                   *)
(*                                                                         *)
(* Python values are tagged records; every type keeps its payload under a  *)
(* field of its own, so that values of different types are comparable.     *)
(* Text that the program takes apart (a factory descriptor) is a sequence  *)
(* of pieces: "/" , " ", "+", "-", "_", one decimal digit, or a block of   *)
(* other characters that holds none of these.  Text that the program only  *)
(* builds or passes on is a TLA+ string.                                   *)
(***************************************************************************)
EXTENDS Integers, Sequences, FiniteSets, TLC

VARIABLES
    built,      \* the last construction: how it was asked for and its result
    obj,        \* the facade objects in use, by facade id
    pc,         \* per caller: "idle", "waiting" (request sent), "responded"
    call,       \* per caller: the facade call in progress or last made
    sent,       \* per caller: the request that call issued, or NoRequest
    resp,       \* per caller: the response received, or NoResponse
    inner,      \* per caller: what Device._get / Device._put produced
    outcome,    \* per caller: what the facade call produced for its caller
    wire,       \* the requests in flight: sent and not yet answered
    issued,     \* how many requests have been handed to the transport
    origin,     \* the facade objects as their constructors left them
    validated,  \* how many facade calls got past their own argument checks
    rounds,     \* per caller: how many requests its current or last call issued
    prev        \* per caller: the call made before the current one, when kept

vars == <<built, obj, pc, call, sent, resp, inner, outcome, wire, issued,
          origin, validated, rounds, prev>>

----------------------------------------------------------------------------
(* Bounds of the model.                                                     *)

MaxDeviceNumber == 11   \* device numbers 0..MaxDeviceNumber in direct construction
MaxApiVersion == 2      \* api versions 1..MaxApiVersion in direct construction
MaxExtra == 1           \* descriptor components after the third
MaxRequests == 3        \* requests issued before the callers stop

DEFAULT_API_VERSION == 1

----------------------------------------------------------------------------
(* Python values.                                                           *)

PyNone == [type |-> "NoneType"]
PyStr(s) == [type |-> "str", s |-> s]
PyInt(i) == [type |-> "int", i |-> i]
PyBool(b) == [type |-> "bool", b |-> b]
PyFloat(lit) == [type |-> "float", lit |-> lit]
PyTuple(items) == [type |-> "tuple", items |-> items]
PyDict(d) == [type |-> "dict", d |-> d]
PyList(items) == [type |-> "list", items |-> items]

\* A raised exception and a returned value, as the result of a call.
Raise(exc, detail) == [kind |-> "raise", exc |-> exc, detail |-> detail]
Return(v) == [kind |-> "return", value |-> v]

----------------------------------------------------------------------------
(* printf-style formatting, as used for base_url and NumericError.message.  *)

DigitChar == <<"0", "1", "2", "3", "4", "5", "6", "7", "8", "9">>

RECURSIVE Decimal(_)
Decimal(n) ==
    IF n < 10 THEN DigitChar[n + 1]
    ELSE Decimal(n \div 10) \o DigitChar[(n % 10) + 1]

\* "%d" % n for an int n.
PercentD(n) == IF n < 0 THEN "-" \o Decimal(-n) ELSE Decimal(n)

\* One conversion of the % operator.  "%d" needs a number; "%s" takes str().
ConvertibleArg(directive, v) ==
    IF directive = "%d" THEN v.type = "int" ELSE v.type \in {"str", "int"}

ConvertArg(directive, v) ==
    IF v.type = "int" THEN PercentD(v.i) ELSE v.s

IsDirective(part) == part \in {"%s", "%d"}

RECURSIVE DirectivesOf(_)
DirectivesOf(template) ==
    IF template = <<>> THEN <<>>
    ELSE IF IsDirective(Head(template))
         THEN <<Head(template)>> \o DirectivesOf(Tail(template))
         ELSE DirectivesOf(Tail(template))

\* template % args raises TypeError unless the arguments match the directives.
FormatOk(template, args) ==
    LET ds == DirectivesOf(template)
    IN  /\ Len(ds) = Len(args)
        /\ \A k \in 1..Len(ds) : ConvertibleArg(ds[k], args[k])

RECURSIVE PercentFormat(_, _)
PercentFormat(template, args) ==
    IF template = <<>> THEN ""
    ELSE IF IsDirective(Head(template))
         THEN ConvertArg(Head(template), Head(args))
                  \o PercentFormat(Tail(template), Tail(args))
         ELSE Head(template) \o PercentFormat(Tail(template), args)

----------------------------------------------------------------------------
(* Device.__init__ and the facade classes.                                  *)

BaseUrlTemplate == <<"%s", "://", "%s", "/api/v", "%d", "/", "%s", "/", "%d">>

BaseUrlArgsSwapped(address, device_type, device_number, protocall, api_version) ==
    <<PyStr(protocall), PyStr(address), PyInt(device_number),
      PyStr(device_type), PyInt(api_version)>>

BaseUrlArgsPlaintext(address, device_type, device_number, protocall, api_version) ==
    <<PyStr("http"), PyStr(address), PyInt(api_version),
      PyStr(device_type), PyInt(device_number)>>

BaseUrlArgs(address, device_type, device_number, protocall, api_version) ==
    <<PyStr(protocall), PyStr(address), PyInt(api_version),
      PyStr(device_type), PyInt(device_number)>>

Device__init__(class, address, device_type, device_number, protocall, api_version) ==
    [class |-> class,
     address |-> address,
     device_type |-> device_type,
     device_number |-> device_number,
     api_version |-> api_version,
     base_url |-> PercentFormat(
         BaseUrlTemplate,
         BaseUrlArgs(address, device_type, device_number, protocall, api_version))]

FacadeDeviceTypeClassNames ==
    [Switch |-> "Switch",
     SafetyMonitor |-> "SafetyMonitor",
     Dome |-> "Dome",
     Camera |-> "Camera",
     FilterWheel |-> "FilterWheel",
     Telescope |-> "Telescope",
     Rotator |-> "Rotator",
     Focuser |-> "Focuser"]

\* The device_type each facade class passes to Device.__init__.
FacadeDeviceType ==
    [Switch |-> "switch",
     SafetyMonitor |-> "safetymonitor",
     Dome |-> "dome",
     Camera |-> "camera",
     FilterWheel |-> "filterwheel",
     Telescope |-> "telescope",
     Rotator |-> "rotator",
     Focuser |-> "focuser"]

FacadeClasses == DOMAIN FacadeDeviceType

\* <Facade>.__init__(address, device_number, protocall="http",
\*                   api_version=DEFAULT_API_VERSION)
Facade__init__(class, address, device_number, protocall, api_version) ==
    Device__init__(class, address, FacadeDeviceType[class], device_number,
                   protocall, api_version)

DefaultProtocallSecure == "https"

DefaultProtocall == "http"

----------------------------------------------------------------------------
(* Text as pieces: str.split and int().                                     *)

RECURSIVE Str(_)
Str(pieces) == IF pieces = <<>> THEN "" ELSE Head(pieces) \o Str(Tail(pieces))

\* name.split('/'): the runs between separators, empty runs included.
RECURSIVE SplitFrom(_, _)
SplitFrom(pieces, run) ==
    IF pieces = <<>> THEN <<run>>
    ELSE IF Head(pieces) = "/"
         THEN <<run>> \o SplitFrom(Tail(pieces), <<>>)
         ELSE SplitFrom(Tail(pieces), Append(run, Head(pieces)))

Split(pieces) == SplitFrom(pieces, <<>>)

DigitValue(c) == CHOOSE d \in 0..9 : DigitChar[d + 1] = c

IsDigit(c) == \E d \in 0..9 : DigitChar[d + 1] = c

RECURSIVE LStrip(_)
LStrip(pieces) ==
    IF pieces # <<>> /\ Head(pieces) = " " THEN LStrip(Tail(pieces)) ELSE pieces

RECURSIVE RStrip(_)
RStrip(pieces) ==
    IF pieces # <<>> /\ pieces[Len(pieces)] = " "
    THEN RStrip(SubSeq(pieces, 1, Len(pieces) - 1))
    ELSE pieces

\* Digits with single underscores between them, as int() accepts.
IsDigitRun(ds) ==
    /\ ds # <<>>
    /\ IsDigit(ds[1])
    /\ IsDigit(ds[Len(ds)])
    /\ \A k \in 1..Len(ds) : IsDigit(ds[k]) \/ ds[k] = "_"
    /\ \A k \in 1..(Len(ds) - 1) : ~(ds[k] = "_" /\ ds[k + 1] = "_")

RECURSIVE DigitsValue(_, _)
DigitsValue(ds, acc) ==
    IF ds = <<>> THEN acc
    ELSE IF Head(ds) = "_" THEN DigitsValue(Tail(ds), acc)
         ELSE DigitsValue(Tail(ds), 10 * acc + DigitValue(Head(ds)))

\* int(val) for a str: surrounding blanks dropped, an optional sign, digits.
IntBody(pieces) ==
    LET core == RStrip(LStrip(pieces))
    IN  IF core # <<>> /\ Head(core) \in {"+", "-"} THEN Tail(core) ELSE core

IntNegative(pieces) ==
    LET core == RStrip(LStrip(pieces))
    IN  core # <<>> /\ Head(core) = "-"

IntParses(pieces) == IsDigitRun(IntBody(pieces))

IntValue(pieces) ==
    LET v == DigitsValue(IntBody(pieces), 0)
    IN  IF IntNegative(pieces) THEN -v ELSE v

----------------------------------------------------------------------------
(* The module namespace and the CreateClient factory.                       *)

\* globals() of the module: every name bound at module level, with the kind
\* of object it is bound to.
Globals ==
    [datetime |-> "datetime",
     Optional |-> "typing", Union |-> "typing", List |-> "typing",
     Dict |-> "typing", Mapping |-> "typing", Any |-> "typing",
     dateutil |-> "module", requests |-> "module",
     DEFAULT_API_VERSION |-> "int",
     Device |-> "Device",
     Switch |-> "facade", SafetyMonitor |-> "facade", Dome |-> "facade",
     Camera |-> "facade", FilterWheel |-> "facade", Telescope |-> "facade",
     Rotator |-> "facade", Focuser |-> "facade",
     NumericError |-> "NumericError", ErrorMessage |-> "ErrorMessage",
     CreateClient |-> "function",
     __name__ |-> "str", __doc__ |-> "str", __file__ |-> "str",
     __package__ |-> "str", __cached__ |-> "str", __spec__ |-> "object",
     __loader__ |-> "object", __builtins__ |-> "dict"]

NumericErrorTemplate == <<"Error ", "%d", ": ", "%s">>

NumericError__init__MessageOnly(ErrorNumber, ErrorMessage) ==
    [class |-> "NumericError", message |-> ErrorMessage.s]

\* NumericError(ErrorNumber, ErrorMessage): only the formatted text is kept.
NumericError__init__(ErrorNumber, ErrorMessage) ==
    [class |-> "NumericError",
     message |-> PercentFormat(NumericErrorTemplate, <<ErrorNumber, ErrorMessage>>)]

\* ErrorMessage(Value)
ErrorMessage__init__(Value) == [class |-> "ErrorMessage", message |-> Value]

\* NumericError.__str__ and ErrorMessage.__str__: return self.message
Exception__str__(self) == self.message

\* name(*args) for a module-level name and at most two positional arguments,
\* the first a str and the second an int.
CallGlobal(name, args) ==
    LET kind == Globals[name]
    IN  CASE kind = "facade" ->
                 IF Len(args) = 2
                 THEN Return(Facade__init__(name, args[1].s, args[2].i,
                                            DefaultProtocall, DEFAULT_API_VERSION))
                 ELSE Raise("TypeError", "missing positional argument")
          [] kind = "ErrorMessage" ->
                 IF Len(args) = 1
                 THEN Return(ErrorMessage__init__(args[1].s))
                 ELSE Raise("TypeError", "wrong number of arguments")
          [] kind = "NumericError" ->
                 IF Len(args) = 2 /\ FormatOk(NumericErrorTemplate, args)
                 THEN Return(NumericError__init__(args[1], args[2]))
                 ELSE Raise("TypeError", "arguments do not fit")
          [] kind = "function" ->
                 \* CreateClient(name) on a slash-free name calls a global
                 \* with no argument, which every global refuses.
                 IF Len(args) = 1
                 THEN IF args[1].s \in DOMAIN Globals
                      THEN Raise("TypeError", "missing positional argument")
                      ELSE Raise("KeyError", args[1].s)
                 ELSE Raise("TypeError", "wrong number of arguments")
          [] OTHER -> Raise("TypeError", "not callable with these arguments")

\* zip((str, str, int), name.split('/')): at most three components are kept.
ZipLength(parts) == IF Len(parts) < 3 THEN Len(parts) ELSE 3

CreateClient(name) ==
    LET parts == Split(name)
        n == ZipLength(parts)
        typed == [k \in 1..n |->
                     IF k = 3 THEN PyInt(IntValue(parts[k]))
                     ELSE PyStr(Str(parts[k]))]
    IN  IF n >= 3 /\ ~IntParses(parts[3])
        THEN Raise("ValueError", Str(parts[3]))
        ELSE IF typed[1].s \notin DOMAIN Globals
             THEN Raise("KeyError", typed[1].s)
             ELSE CallGlobal(typed[1].s, SubSeq(typed, 2, n))


----------------------------------------------------------------------------
(* The HTTP exchange: requests.get / requests.put and the response.         *)

NoRequest == [method |-> "none"]
NoResponse == [status_code |-> 0]
NoResult == [kind |-> "none"]

\* A request as the transport sends it: the query string carries `params`,
\* the body carries `data`.  Both are sequences of <<key, value>> pairs.
Request(method, url, params, data) ==
    [method |-> method, url |-> url, params |-> params, data |-> data]

\* requests.get(url, data=data)
requests_get(url, data) == Request("GET", url, <<>>, data)

\* requests.put(url, data=data)
requests_put(url, data) == Request("PUT", url, <<>>, data)

\* "%s/%s" % (self.base_url, attribute)
UrlTemplate == <<"%s", "/", "%s">>

AttributeUrlFromFields(self, attribute) ==
    PercentFormat(UrlTemplate,
                  <<PyStr(Device__init__(self.class, self.address, self.device_type,
                                         self.device_number, "http",
                                         self.api_version).base_url),
                    PyStr(attribute)>>)

AttributeUrl(self, attribute) ==
    PercentFormat(UrlTemplate, <<PyStr(self.base_url), PyStr(attribute)>>)

\* A response body: its raw text and, when the text is JSON, the decoded
\* object (a function from the keys present to their values).
JsonBody(text, decoded) == [text |-> text, isjson |-> TRUE, decoded |-> decoded]
TextBody(text) == [text |-> text, isjson |-> FALSE]

Response(status_code, body) == [status_code |-> status_code, body |-> body]

\* response.json()
response_json(response) ==
    IF response.body.isjson
    THEN Return(PyDict(response.body.decoded))
    ELSE Raise("JSONDecodeError", response.body.text)

\* d[key] for a str key: a decoded JSON object yields the item or KeyError,
\* any other value here is not subscriptable by a str.
GetItem(d, key) ==
    IF d.type # "dict" THEN Raise("TypeError", "not subscriptable by str")
    ELSE IF key \in DOMAIN d.d THEN Return(d.d[key])
    ELSE Raise("KeyError", key)

----------------------------------------------------------------------------
(* Device.__check_error, Device._get and Device._put.                       *)

Passed == [kind |-> "pass"]

TransportTextFromJson(response) ==
    IF response.body.isjson /\ "ErrorMessage" \in DOMAIN response.body.decoded
    THEN response.body.decoded["ErrorMessage"].s
    ELSE response.body.text

\* The text handed to ErrorMessage(...) on status 400 or 500.
TransportText(response) == response.body.text

NumericArgsMessageOnly(j) == <<PyInt(0), j.d["ErrorMessage"]>>

\* The arguments handed to NumericError(...).
NumericArgs(j) == <<j.d["ErrorNumber"], j.d["ErrorMessage"]>>

Device__check_errorAnyFailureStatus(response) ==
    IF response.status_code >= 400
    THEN Raise("ErrorMessage", ErrorMessage__init__(TransportText(response)).message)
    ELSE Passed

Device__check_error(response) ==
    IF response.status_code = 400 \/ response.status_code = 500
    THEN Raise("ErrorMessage", ErrorMessage__init__(TransportText(response)).message)
    ELSE IF response.status_code = 200
    THEN LET j == response_json(response)
         IN  IF j.kind = "raise" THEN j
             ELSE IF GetItem(j.value, "ErrorNumber").kind = "raise"
                  THEN GetItem(j.value, "ErrorNumber")
             ELSE IF j.value.d["ErrorNumber"] # PyInt(0)
                  THEN IF GetItem(j.value, "ErrorMessage").kind = "raise"
                       THEN GetItem(j.value, "ErrorMessage")
                       ELSE IF ~FormatOk(NumericErrorTemplate, NumericArgs(j.value))
                       THEN Raise("TypeError", "%d format: a number is required")
                       ELSE Raise("NumericError",
                                  NumericError__init__(NumericArgs(j.value)[1],
                                                       NumericArgs(j.value)[2]).message)
                  ELSE Passed
    ELSE Passed

GetResultWhole(response) == response_json(response)

\* return response.json()["Value"]
GetResult(response) ==
    LET j == response_json(response)
    IN  IF j.kind = "raise" THEN j ELSE GetItem(j.value, "Value")

Device_get_finishValueFirst(response) ==
    LET value == GetResult(response)
    IN  IF value.kind = "raise" THEN value
        ELSE IF Device__check_error(response).kind = "raise"
             THEN Device__check_error(response)
             ELSE value

\* What Device._get produces from the response to its request.
Device_get_finish(response) ==
    LET checked == Device__check_error(response)
    IN  IF checked.kind = "raise" THEN checked ELSE GetResult(response)

PutResultValueOnly(response) ==
    LET j == response_json(response)
    IN  IF j.kind = "raise" THEN j ELSE GetItem(j.value, "Value")

\* return response.json()
PutResult(response) == response_json(response)

Device_put_finishUnchecked(response) == PutResult(response)

\* What Device._put produces from the response to its request.
Device_put_finish(response) ==
    LET checked == Device__check_error(response)
    IN  IF checked.kind = "raise" THEN checked ELSE PutResult(response)

Device_get_requestNumbered(self, attribute, data) ==
    requests_get(AttributeUrl(self, attribute),
                 Append(data, <<"ClientTransactionID", PyInt(issued)>>))

\* The request Device._get / Device._put issues.
Device_get_request(self, attribute, data) ==
    requests_get(AttributeUrl(self, attribute), data)

Device_put_request(self, attribute, data) ==
    requests_put(AttributeUrl(self, attribute), data)


----------------------------------------------------------------------------
(* datetime values and datetime.isoformat().                                *)

RECURSIVE NumDigits(_)
NumDigits(n) == IF n < 10 THEN 1 ELSE 1 + NumDigits(n \div 10)

RECURSIVE Zeros(_)
Zeros(k) == IF k <= 0 THEN "" ELSE "0" \o Zeros(k - 1)

\* "%0<width>d" % n for n >= 0
ZeroPad(n, width) == Zeros(width - NumDigits(n)) \o Decimal(n)

Naive == [aware |-> FALSE]
Offset(minutes) == [aware |-> TRUE, minutes |-> minutes]
\* A fixed offset that is no whole number of minutes (here: east of UTC).
OffsetSeconds(minutes, seconds) ==
    [aware |-> TRUE, minutes |-> minutes, seconds |-> seconds]

DateTime(year, month, day, hour, minute, second, microsecond, tz) ==
    [year |-> year, month |-> month, day |-> day, hour |-> hour,
     minute |-> minute, second |-> second, microsecond |-> microsecond,
     tz |-> tz]

OffsetText(tz) ==
    IF ~tz.aware THEN ""
    ELSE LET m == IF tz.minutes < 0 THEN -tz.minutes ELSE tz.minutes
         IN  (IF tz.minutes < 0 THEN "-" ELSE "+")
                 \o ZeroPad(m \div 60, 2) \o ":" \o ZeroPad(m % 60, 2)
                 \o (IF "seconds" \in DOMAIN tz
                     THEN ":" \o ZeroPad(tz.seconds, 2) ELSE "")

isoformatSpace(dt) ==
    ZeroPad(dt.year, 4) \o "-" \o ZeroPad(dt.month, 2) \o "-" \o ZeroPad(dt.day, 2)
        \o " " \o ZeroPad(dt.hour, 2) \o ":" \o ZeroPad(dt.minute, 2)
        \o ":" \o ZeroPad(dt.second, 2)
        \o (IF dt.microsecond # 0 THEN "." \o ZeroPad(dt.microsecond, 6) ELSE "")
        \o OffsetText(dt.tz)

\* datetime.isoformat(): YYYY-MM-DDTHH:MM:SS[.ffffff][+HH:MM]
isoformat(dt) ==
    ZeroPad(dt.year, 4) \o "-" \o ZeroPad(dt.month, 2) \o "-" \o ZeroPad(dt.day, 2)
        \o "T" \o ZeroPad(dt.hour, 2) \o ":" \o ZeroPad(dt.minute, 2)
        \o ":" \o ZeroPad(dt.second, 2)
        \o (IF dt.microsecond # 0 THEN "." \o ZeroPad(dt.microsecond, 6) ELSE "")
        \o OffsetText(dt.tz)

PyDatetime(dt) == [type |-> "datetime", dt |-> dt]
\* An instance of a subclass of datetime (type(x) is not datetime).
PyDatetimeSubclass(dt) == [type |-> "datetime subclass", dt |-> dt]
\* An instance of a subclass of str.
PyStrSubclass(s) == [type |-> "str subclass", s |-> s]
\* A datetime.date: a date without a time.
PyDate(year, month, day) ==
    [type |-> "date", year |-> year, month |-> month, day |-> day]

\* isinstance(v, cls) for the classes above.
IsInstance(v, cls) ==
    \/ v.type = cls
    \/ cls = "str" /\ v.type = "str subclass"
    \/ cls = "datetime" /\ v.type = "datetime subclass"
    \/ cls = "date" /\ v.type \in {"datetime", "datetime subclass"}
    \/ cls = "int" /\ v.type = "bool"

----------------------------------------------------------------------------
(* The facade methods: each is one call of Device._get or Device._put.      *)

\* access: "get" (property getter), "set" (property setter), "call" (method)
\* verb:   the executor used, "_get" or "_put"
\* keys:   the keyword parameters passed to the executor, in order
\* shape:  how the arguments become the parameters ("plain": unchanged)
\* post:   what the method does with the executor's result:
\*         "result" returns it, "Value" returns its Value item, "drop" returns None
Method(owner, name, access, verb, attribute, keys, shape, post) ==
    [owner |-> owner, name |-> name, access |-> access, verb |-> verb,
     attribute |-> attribute, keys |-> keys, shape |-> shape, post |-> post]

DeviceMethods ==
    {Method("Device", "Action", "call", "_put", "action",
            <<"Action", "Parameters">>, "plain", "Value"),
     Method("Device", "CommandBlind", "call", "_put", "commandblind",
            <<"Command", "Raw">>, "plain", "drop"),
     Method("Device", "CommandBool", "call", "_put", "commandbool",
            <<"Command", "Raw">>, "plain", "Value"),
     Method("Device", "CommandString", "call", "_put", "commandstring",
            <<"Command", "Raw">>, "plain", "Value"),
     Method("Device", "Connected", "get", "_get", "connected", <<>>, "plain", "result"),
     Method("Device", "Connected", "set", "_put", "connected",
            <<"Connected">>, "plain", "drop"),
     Method("Device", "Description", "get", "_get", "name", <<>>, "plain", "result"),
     Method("Device", "DriverVersion", "get", "_get", "driverversion",
            <<>>, "plain", "result"),
     Method("Device", "InterfaceVersion", "get", "_get", "interfaceversion",
            <<>>, "plain", "result"),
     Method("Device", "Name", "get", "_get", "name", <<>>, "plain", "result"),
     Method("Device", "SupportedActions", "get", "_get", "supportedactions",
            <<>>, "plain", "result")}

SwitchMethods ==
    {Method("Switch", "MaxSwitch", "get", "_get", "maxswitch", <<>>, "plain", "result"),
     Method("Switch", "GetSwitch", "call", "_get", "getswitch",
            <<"Id">>, "plain", "result"),
     Method("Switch", "SetSwitch", "call", "_put", "setswitch",
            <<"Id", "State">>, "plain", "drop")}

TelescopeMethods ==
    {Method("Telescope", "RightAscension", "get", "_get", "rightascension",
            <<>>, "plain", "result"),
     Method("Telescope", "TargetRightAscension", "get", "_get",
            "targetrightascension", <<>>, "plain", "result"),
     Method("Telescope", "TargetRightAscension", "set", "_put",
            "targetrightascension", <<"TargetRightAscension">>, "plain", "drop"),
     Method("Telescope", "UTCDate", "set", "_put", "utcdate",
            <<"UTCDate">>, "utcdate", "drop"),
     Method("Telescope", "AbortSlew", "call", "_put", "abortslew",
            <<>>, "plain", "drop")}

Methods == DeviceMethods \cup SwitchMethods \cup TelescopeMethods

\* The methods an object of class `class` has: its own and the inherited ones.
MethodsOf(class) == {m \in Methods : m.owner \in {"Device", class}}

\* class Device: lines 18-185
DeviceMembers ==
    {Method("Device", "Action", "call", "_put", "action", <<"Action", "Parameters">>, "plain", "Value"),
     Method("Device", "CommandBlind", "call", "_put", "commandblind", <<"Command", "Raw">>, "plain", "drop"),
     Method("Device", "CommandBool", "call", "_put", "commandbool", <<"Command", "Raw">>, "plain", "Value"),
     Method("Device", "CommandString", "call", "_put", "commandstring", <<"Command", "Raw">>, "plain", "Value"),
     Method("Device", "Connected", "get", "_get", "connected", <<>>, "plain", "result"),
     Method("Device", "Connected", "set", "_put", "connected", <<"Connected">>, "plain", "drop"),
     Method("Device", "Description", "get", "_get", "name", <<>>, "plain", "result"),
     Method("Device", "DriverInfo", "get", "_get", "driverinfo", <<>>, "plain", "split"),
     Method("Device", "DriverVersion", "get", "_get", "driverversion", <<>>, "plain", "result"),
     Method("Device", "InterfaceVersion", "get", "_get", "interfaceversion", <<>>, "plain", "result"),
     Method("Device", "Name", "get", "_get", "name", <<>>, "plain", "result"),
     Method("Device", "SupportedActions", "get", "_get", "supportedactions", <<>>, "plain", "result")}

\* class Switch: lines 188-359
SwitchMembers ==
    {Method("Switch", "MaxSwitch", "get", "_get", "maxswitch", <<>>, "plain", "result"),
     Method("Switch", "CanWrite", "call", "_get", "canwrite", <<"Id">>, "plain", "result"),
     Method("Switch", "GetSwitch", "call", "_get", "getswitch", <<"Id">>, "plain", "result"),
     Method("Switch", "GetSwitchDescription", "call", "_get", "getswitchdescription", <<"Id">>, "plain", "result"),
     Method("Switch", "GetSwitchName", "call", "_get", "getswitchname", <<"Id">>, "plain", "result"),
     Method("Switch", "GetSwitchValue", "call", "_get", "getswitchvalue", <<"Id">>, "plain", "result"),
     Method("Switch", "MinSwitchValue", "call", "_get", "minswitchvalue", <<"Id">>, "plain", "result"),
     Method("Switch", "SetSwitch", "call", "_put", "setswitch", <<"Id", "State">>, "plain", "drop"),
     Method("Switch", "SetSwitchName", "call", "_put", "setswitchname", <<"Id", "Name">>, "plain", "drop"),
     Method("Switch", "SetSwitchValue", "call", "_put", "setswitchvalue", <<"Id", "Value">>, "plain", "drop"),
     Method("Switch", "SwitchStep", "call", "_get", "switchstep", <<"Id">>, "plain", "result")}

\* class SafetyMonitor: lines 362-385
SafetyMonitorMembers ==
    {Method("SafetyMonitor", "IsSafe", "get", "_get", "issafe", <<>>, "plain", "result")}

\* class Dome: lines 388-641
DomeMembers ==
    {Method("Dome", "Altitude", "get", "_get", "altitude", <<>>, "plain", "result"),
     Method("Dome", "AtHome", "get", "_get", "athome", <<>>, "plain", "result"),
     Method("Dome", "AtPark", "get", "_get", "atpark", <<>>, "plain", "result"),
     Method("Dome", "Azimuth", "get", "_get", "azimuth", <<>>, "plain", "result"),
     Method("Dome", "CanFindHome", "get", "_get", "canfindhome", <<>>, "plain", "result"),
     Method("Dome", "CanPark", "get", "_get", "canpark", <<>>, "plain", "result"),
     Method("Dome", "CanSetAltitude", "get", "_get", "cansetaltitude", <<>>, "plain", "result"),
     Method("Dome", "CanSetAzimuth", "get", "_get", "cansetazimuth", <<>>, "plain", "result"),
     Method("Dome", "CanSetPark", "get", "_get", "cansetpark", <<>>, "plain", "result"),
     Method("Dome", "CanSetShutter", "get", "_get", "cansetshutter", <<>>, "plain", "result"),
     Method("Dome", "CanSlave", "get", "_get", "canslave", <<>>, "plain", "result"),
     Method("Dome", "CanSyncAzimuth", "get", "_get", "cansyncazimuth", <<>>, "plain", "result"),
     Method("Dome", "ShutterStatus", "get", "_get", "shutterstatus", <<>>, "plain", "result"),
     Method("Dome", "Slaved", "get", "_get", "slaved", <<>>, "plain", "result"),
     Method("Dome", "Slaved", "set", "_put", "slaved", <<"Slaved">>, "plain", "drop"),
     Method("Dome", "Slewing", "get", "_get", "slewing", <<>>, "plain", "result"),
     Method("Dome", "AbortSlew", "call", "_put", "abortslew", <<>>, "plain", "drop"),
     Method("Dome", "CloseShutter", "call", "_put", "closeshutter", <<>>, "plain", "drop"),
     Method("Dome", "FindHome", "call", "_put", "findhome", <<>>, "plain", "drop"),
     Method("Dome", "OpenShutter", "call", "_put", "openshutter", <<>>, "plain", "drop"),
     Method("Dome", "Park", "call", "_put", "park", <<>>, "plain", "drop"),
     Method("Dome", "SetPark", "call", "_put", "setpark", <<>>, "plain", "drop"),
     Method("Dome", "SlewToAltitude", "call", "_put", "slewtoaltitude", <<"Altitude">>, "plain", "drop"),
     Method("Dome", "SlewToAzimuth", "call", "_put", "slewtoazimuth", <<"Azimuth">>, "plain", "drop"),
     Method("Dome", "SyncToAzimuth", "call", "_put", "synctoazimuth", <<"Azimuth">>, "plain", "drop")}

\* class Camera: lines 644-1163
CameraMembers ==
    {Method("Camera", "BayerOffsetX", "get", "_get", "bayeroffsetx", <<>>, "plain", "result"),
     Method("Camera", "BayerOffsetY", "get", "_get", "bayeroffsety", <<>>, "plain", "result"),
     Method("Camera", "BinX", "get", "_get", "binx", <<>>, "plain", "result"),
     Method("Camera", "BinX", "set", "_put", "binx", <<"BinX">>, "plain", "drop"),
     Method("Camera", "BinY", "get", "_get", "biny", <<>>, "plain", "result"),
     Method("Camera", "BinY", "set", "_put", "biny", <<"BinY">>, "plain", "drop"),
     Method("Camera", "CameraState", "get", "_get", "camerastate", <<>>, "plain", "result"),
     Method("Camera", "CameraXSize", "get", "_get", "cameraxsize", <<>>, "plain", "result"),
     Method("Camera", "CameraYSize", "get", "_get", "cameraysize", <<>>, "plain", "result"),
     Method("Camera", "CanAbortExposure", "get", "_get", "canabortexposure", <<>>, "plain", "result"),
     Method("Camera", "CanAsymmetricBin", "get", "_get", "canasymmetricbin", <<>>, "plain", "result"),
     Method("Camera", "CanFastReadout", "get", "_get", "canfastreadout", <<>>, "plain", "result"),
     Method("Camera", "CanGetCoolerPower", "get", "_get", "cangetcoolerpower", <<>>, "plain", "result"),
     Method("Camera", "CanPulseGuide", "get", "_get", "canpulseguide", <<>>, "plain", "result"),
     Method("Camera", "CanSetCCDTemperature", "get", "_get", "cansetccdtemperature", <<>>, "plain", "result"),
     Method("Camera", "CanStopExposure", "get", "_get", "canstopexposure", <<>>, "plain", "result"),
     Method("Camera", "CCDTemperature", "get", "_get", "ccdtemperature", <<>>, "plain", "result"),
     Method("Camera", "CoolerOn", "get", "_get", "cooleron", <<>>, "plain", "result"),
     Method("Camera", "CoolerOn", "set", "_put", "cooleron", <<"CoolerOn">>, "plain", "drop"),
     Method("Camera", "CoolerPower", "get", "_get", "coolerpower", <<>>, "plain", "result"),
     Method("Camera", "ElectronsPerADU", "get", "_get", "electronsperadu", <<>>, "plain", "result"),
     Method("Camera", "ExposureMax", "get", "_get", "exposuremax", <<>>, "plain", "result"),
     Method("Camera", "ExposureMin", "get", "_get", "exposuremin", <<>>, "plain", "result"),
     Method("Camera", "ExposureResolution", "get", "_get", "exposureresolution", <<>>, "plain", "result"),
     Method("Camera", "FastReadout", "get", "_get", "fastreadout", <<>>, "plain", "result"),
     Method("Camera", "FastReadout", "set", "_put", "fastreadout", <<"FastReadout">>, "plain", "drop"),
     Method("Camera", "FullWellCapacity", "get", "_get", "fullwellcapacity", <<>>, "plain", "result"),
     Method("Camera", "Gain", "get", "_get", "gain", <<>>, "plain", "result"),
     Method("Camera", "Gain", "set", "_put", "gain", <<"Gain">>, "plain", "drop"),
     Method("Camera", "GainMax", "get", "_get", "gainmax", <<>>, "plain", "result"),
     Method("Camera", "GainMin", "get", "_get", "gainmin", <<>>, "plain", "result"),
     Method("Camera", "Gains", "get", "_get", "gains", <<>>, "plain", "result"),
     Method("Camera", "HasShutter", "get", "_get", "hasshutter", <<>>, "plain", "result"),
     Method("Camera", "HeatSinkTemperature", "get", "_get", "heatsinktemperature", <<>>, "plain", "result"),
     Method("Camera", "ImageArray", "get", "_get", "imagearray", <<>>, "plain", "result"),
     Method("Camera", "ImageArrayVariant", "get", "_get", "imagearrayvariant", <<>>, "plain", "result"),
     Method("Camera", "ImageReady", "get", "_get", "imageready", <<>>, "plain", "result"),
     Method("Camera", "IsPulseGuiding", "get", "_get", "ispulseguiding", <<>>, "plain", "result"),
     Method("Camera", "LastExposureDuration", "get", "_get", "lastexposureduration", <<>>, "plain", "result"),
     Method("Camera", "LastExposureStartTime", "get", "_get", "lastexposurestarttime", <<>>, "plain", "result"),
     Method("Camera", "MaxADU", "get", "_get", "maxadu", <<>>, "plain", "result"),
     Method("Camera", "MaxBinX", "get", "_get", "maxbinx", <<>>, "plain", "result"),
     Method("Camera", "MaxBinY", "get", "_get", "maxbiny", <<>>, "plain", "result"),
     Method("Camera", "NumX", "get", "_get", "numx", <<>>, "plain", "result"),
     Method("Camera", "NumX", "set", "_put", "numx", <<"NumX">>, "plain", "drop"),
     Method("Camera", "NumY", "get", "_get", "numy", <<>>, "plain", "result"),
     Method("Camera", "NumY", "set", "_put", "numy", <<"NumY">>, "plain", "drop"),
     Method("Camera", "PercentCompleted", "get", "_get", "percentcompleted", <<>>, "plain", "result"),
     Method("Camera", "PixelSizeX", "get", "_get", "pixelsizex", <<>>, "plain", "result"),
     Method("Camera", "PixelSizeY", "get", "_get", "pixelsizey", <<>>, "plain", "result"),
     Method("Camera", "ReadoutMode", "get", "_get", "readoutmode", <<>>, "plain", "result"),
     Method("Camera", "ReadoutMode", "set", "_put", "readoutmode", <<"ReadoutMode">>, "plain", "drop"),
     Method("Camera", "ReadoutModes", "get", "_get", "readoutmodes", <<>>, "plain", "result"),
     Method("Camera", "SensorName", "get", "_get", "sensorname", <<>>, "plain", "result"),
     Method("Camera", "SensorType", "get", "_get", "sensortype", <<>>, "plain", "result"),
     Method("Camera", "SetCCDTemperature", "get", "_get", "setccdtemperature", <<>>, "plain", "result"),
     Method("Camera", "SetCCDTemperature", "set", "_put", "setccdtemperature", <<"SetCCDTemperature">>, "plain", "drop"),
     Method("Camera", "StartX", "get", "_get", "startx", <<>>, "plain", "result"),
     Method("Camera", "StartX", "set", "_put", "startx", <<"StartX">>, "plain", "drop"),
     Method("Camera", "StartY", "get", "_get", "starty", <<>>, "plain", "result"),
     Method("Camera", "StartY", "set", "_put", "starty", <<"StartY">>, "plain", "drop"),
     Method("Camera", "AbortExposure", "call", "_put", "abortexposure", <<>>, "plain", "drop"),
     Method("Camera", "PulseGuide", "call", "_put", "pulseguide", <<"Direction", "Duration">>, "plain", "drop"),
     Method("Camera", "StartExposure", "call", "_put", "startexposure", <<"Duration", "Light">>, "plain", "drop"),
     Method("Camera", "StopExposure", "call", "_put", "stopexposure", <<>>, "plain", "drop")}

\* class FilterWheel: lines 1166-1214
FilterWheelMembers ==
    {Method("FilterWheel", "FocusOffsets", "get", "_get", "focusoffsets", <<>>, "plain", "result"),
     Method("FilterWheel", "Names", "get", "_get", "names", <<>>, "plain", "result"),
     Method("FilterWheel", "Position", "get", "_get", "position", <<>>, "plain", "result"),
     Method("FilterWheel", "Position", "set", "_put", "position", <<"Position">>, "plain", "drop")}

\* class Telescope: lines 1217-1991
TelescopeMembers ==
    {Method("Telescope", "AlignmentMode", "get", "_get", "alignmentmode", <<>>, "plain", "result"),
     Method("Telescope", "Altitude", "get", "_get", "altitude", <<>>, "plain", "result"),
     Method("Telescope", "ApertureArea", "get", "_get", "aperturearea", <<>>, "plain", "result"),
     Method("Telescope", "ApertureDiameter", "get", "_get", "aperturediameter", <<>>, "plain", "result"),
     Method("Telescope", "AtHome", "get", "_get", "athome", <<>>, "plain", "result"),
     Method("Telescope", "AtPark", "get", "_get", "atpark", <<>>, "plain", "result"),
     Method("Telescope", "Azimuth", "get", "_get", "azimuth", <<>>, "plain", "result"),
     Method("Telescope", "CanFindHome", "get", "_get", "canfindhome", <<>>, "plain", "result"),
     Method("Telescope", "CanPark", "get", "_get", "canpark", <<>>, "plain", "result"),
     Method("Telescope", "CanPulseGuide", "get", "_get", "canpulseguide", <<>>, "plain", "result"),
     Method("Telescope", "CanSetDeclinationRate", "get", "_get", "cansetdeclinationrate", <<>>, "plain", "result"),
     Method("Telescope", "CanSetGuideRates", "get", "_get", "cansetguiderates", <<>>, "plain", "result"),
     Method("Telescope", "CanSetPark", "get", "_get", "cansetpark", <<>>, "plain", "result"),
     Method("Telescope", "CanSetPierSide", "get", "_get", "cansetpierside", <<>>, "plain", "result"),
     Method("Telescope", "CanSetRightAscensionRate", "get", "_get", "cansetrightascensionrate", <<>>, "plain", "result"),
     Method("Telescope", "CanSetTracking", "get", "_get", "cansettracking", <<>>, "plain", "result"),
     Method("Telescope", "CanSlew", "get", "_get", "canslew", <<>>, "plain", "result"),
     Method("Telescope", "CanSlewAltAz", "get", "_get", "canslewaltaz", <<>>, "plain", "result"),
     Method("Telescope", "CanSlewAltAzAsync", "get", "_get", "canslewaltazasync", <<>>, "plain", "result"),
     Method("Telescope", "CanSync", "get", "_get", "cansync", <<>>, "plain", "result"),
     Method("Telescope", "CanSyncAltAz", "get", "_get", "cansyncaltaz", <<>>, "plain", "result"),
     Method("Telescope", "CanUnpark", "get", "_get", "canunpark", <<>>, "plain", "result"),
     Method("Telescope", "Declination", "get", "_get", "declination", <<>>, "plain", "result"),
     Method("Telescope", "DeclinationRate", "get", "_get", "declinationrate", <<>>, "plain", "result"),
     Method("Telescope", "DeclinationRate", "set", "_put", "declinationrate", <<"DeclinationRate">>, "plain", "drop"),
     Method("Telescope", "DoesRefraction", "get", "_get", "doesrefraction", <<>>, "plain", "result"),
     Method("Telescope", "DoesRefraction", "set", "_put", "doesrefraction", <<"DoesRefraction">>, "plain", "drop"),
     Method("Telescope", "EquatorialSystem", "get", "_get", "equatorialsystem", <<>>, "plain", "result"),
     Method("Telescope", "FocalLength", "get", "_get", "focallength", <<>>, "plain", "result"),
     Method("Telescope", "GuideRateDeclination", "get", "_get", "guideratedeclination", <<>>, "plain", "result"),
     Method("Telescope", "GuideRateDeclination", "set", "_put", "guideratedeclination", <<"GuideRateDeclination">>, "plain", "drop"),
     Method("Telescope", "GuideRateRightAscension", "get", "_get", "guideraterightascension", <<>>, "plain", "result"),
     Method("Telescope", "GuideRateRightAscension", "set", "_put", "guideraterightascension", <<"GuideRateRightAscension">>, "plain", "drop"),
     Method("Telescope", "IsPulseGuiding", "get", "_get", "ispulseguiding", <<>>, "plain", "result"),
     Method("Telescope", "RightAscension", "get", "_get", "rightascension", <<>>, "plain", "result"),
     Method("Telescope", "RightAscensionRate", "get", "_get", "rightascensionrate", <<>>, "plain", "result"),
     Method("Telescope", "RightAscensionRate", "set", "_put", "rightascensionrate", <<"RightAscensionRate">>, "plain", "drop"),
     Method("Telescope", "SideOfPier", "get", "_get", "sideofpier", <<>>, "plain", "result"),
     Method("Telescope", "SideOfPier", "set", "_put", "sideofpier", <<"SideOfPier">>, "plain", "drop"),
     Method("Telescope", "SiderealTime", "get", "_get", "siderealtime", <<>>, "plain", "result"),
     Method("Telescope", "SiteElevation", "get", "_get", "siteelevation", <<>>, "plain", "result"),
     Method("Telescope", "SiteElevation", "set", "_put", "siteelevation", <<"SiteElevation">>, "plain", "drop"),
     Method("Telescope", "SiteLatitude", "get", "_get", "sitelatitude", <<>>, "plain", "result"),
     Method("Telescope", "SiteLatitude", "set", "_put", "sitelatitude", <<"SiteLatitude">>, "plain", "drop"),
     Method("Telescope", "SiteLongitude", "get", "_get", "sitelongitude", <<>>, "plain", "result"),
     Method("Telescope", "SiteLongitude", "set", "_put", "sitelongitude", <<"SiteLongitude">>, "plain", "drop"),
     Method("Telescope", "Slewing", "get", "_get", "slewing", <<>>, "plain", "result"),
     Method("Telescope", "SlewSettleTime", "get", "_get", "slewsettletime", <<>>, "plain", "result"),
     Method("Telescope", "SlewSettleTime", "set", "_put", "slewsettletime", <<"SlewSettleTime">>, "plain", "drop"),
     Method("Telescope", "TargetDeclination", "get", "_get", "targetdeclination", <<>>, "plain", "result"),
     Method("Telescope", "TargetDeclination", "set", "_put", "targetdeclination", <<"TargetDeclination">>, "plain", "drop"),
     Method("Telescope", "TargetRightAscension", "get", "_get", "targetrightascension", <<>>, "plain", "result"),
     Method("Telescope", "TargetRightAscension", "set", "_put", "targetrightascension", <<"TargetRightAscension">>, "plain", "drop"),
     Method("Telescope", "Tracking", "get", "_get", "tracking", <<>>, "plain", "result"),
     Method("Telescope", "Tracking", "set", "_put", "tracking", <<"Tracking">>, "plain", "drop"),
     Method("Telescope", "TrackingRate", "get", "_get", "trackingrate", <<>>, "plain", "result"),
     Method("Telescope", "TrackingRate", "set", "_put", "trackingrate", <<"TrackingRate">>, "plain", "drop"),
     Method("Telescope", "TrackingRates", "get", "_get", "trackingrates", <<>>, "plain", "result"),
     Method("Telescope", "UTCDate", "get", "_get", "utcdate", <<>>, "plain", "parse"),
     Method("Telescope", "UTCDate", "set", "_put", "utcdate", <<"UTCDate">>, "utcdate", "drop"),
     Method("Telescope", "AbortSlew", "call", "_put", "abortslew", <<>>, "plain", "drop"),
     Method("Telescope", "AxisRates", "call", "_get", "axisrates", <<"Axis">>, "plain", "result"),
     Method("Telescope", "CanMoveAxis", "call", "_get", "canmoveaxis", <<"Axis">>, "plain", "result"),
     Method("Telescope", "DestinationSideOfPier", "call", "_get", "destinationsideofpier", <<"RightAscension", "Declination">>, "plain", "result"),
     Method("Telescope", "FindHome", "call", "_put", "findhome", <<>>, "plain", "drop"),
     Method("Telescope", "MoveAxis", "call", "_put", "moveaxis", <<"Axis", "Rate">>, "plain", "drop"),
     Method("Telescope", "Park", "call", "_put", "park", <<>>, "plain", "drop"),
     Method("Telescope", "PulseGuide", "call", "_put", "pulseguide", <<"Direction", "Duration">>, "plain", "drop"),
     Method("Telescope", "SetPark", "call", "_put", "setpark", <<>>, "plain", "drop"),
     Method("Telescope", "SlewToAltAz", "call", "_put", "slewtoaltaz", <<"Azimuth", "Altitude">>, "plain", "drop"),
     Method("Telescope", "SlewToAltAzAsync", "call", "_put", "slewtoaltazasync", <<"Azimuth", "Altitude">>, "plain", "drop"),
     Method("Telescope", "SlewToCoordinates", "call", "_put", "slewtocoordinates", <<"RightAscension", "Declination">>, "plain", "drop"),
     Method("Telescope", "SlewToCoordinatesAsync", "call", "_put", "slewtocoordinatesasync", <<"RightAscension", "Declination">>, "plain", "drop"),
     Method("Telescope", "SlewToTarget", "call", "_put", "slewtotarget", <<>>, "plain", "drop"),
     Method("Telescope", "SlewToTargetAsync", "call", "_put", "slewtotargetasync", <<>>, "plain", "drop"),
     Method("Telescope", "SyncToAltAz", "call", "_put", "synctoaltaz", <<"Azimuth", "Altitude">>, "plain", "drop"),
     Method("Telescope", "SyncToCoordinates", "call", "_put", "synctocoordinates", <<"RightAscension", "Declination">>, "plain", "drop"),
     Method("Telescope", "SyncToTarget", "call", "_put", "synctotarget", <<>>, "plain", "drop"),
     Method("Telescope", "Unpark", "call", "_put", "unpark", <<>>, "plain", "drop")}

\* class Rotator: lines 1994-2042
RotatorMembers ==
    {Method("Rotator", "CanReverse", "get", "_get", "canreverse", <<>>, "plain", "result"),
     Method("Rotator", "IsMoving", "get", "_get", "ismoving", <<>>, "plain", "result"),
     Method("Rotator", "Position", "get", "_get", "position", <<>>, "plain", "result"),
     Method("Rotator", "Reverse", "get", "_get", "reverse", <<>>, "plain", "result"),
     Method("Rotator", "Reverse", "set", "_put", "reverse", <<"Reverse">>, "plain", "drop"),
     Method("Rotator", "StepSize", "get", "_get", "stepsize", <<>>, "plain", "result"),
     Method("Rotator", "TargetPosition", "get", "_get", "targetposition", <<>>, "plain", "result"),
     Method("Rotator", "Halt", "call", "_put", "halt", <<>>, "plain", "drop"),
     Method("Rotator", "Move", "call", "_put", "move", <<"Position">>, "plain", "drop"),
     Method("Rotator", "MoveAbsolute", "call", "_put", "moveabsolute", <<"Position">>, "plain", "drop")}

\* class Focuser: lines 2045-2102
FocuserMembers ==
    {Method("Focuser", "Absolute", "get", "_get", "absolute", <<>>, "plain", "result"),
     Method("Focuser", "IsMoving", "get", "_get", "ismoving", <<>>, "plain", "result"),
     Method("Focuser", "MaxIncrement", "get", "_get", "maxincrement", <<>>, "plain", "result"),
     Method("Focuser", "MaxStep", "get", "_get", "maxstep", <<>>, "plain", "result"),
     Method("Focuser", "Position", "get", "_get", "position", <<>>, "plain", "result"),
     Method("Focuser", "StepSize", "get", "_get", "stepsize", <<>>, "plain", "result"),
     Method("Focuser", "TempComp", "get", "_get", "tempcomp", <<>>, "plain", "result"),
     Method("Focuser", "TempComp", "set", "_put", "tempcomp", <<"TempComp">>, "plain", "drop"),
     Method("Focuser", "TempCompAvailable", "get", "_get", "tempcompavailable", <<>>, "plain", "result"),
     Method("Focuser", "Temperature", "get", "_get", "temperature", <<>>, "plain", "result"),
     Method("Focuser", "Halt", "call", "_put", "halt", <<>>, "plain", "drop"),
     Method("Focuser", "Move", "call", "_put", "move", <<"Position">>, "plain", "drop")}

Members ==
    UNION {DeviceMembers, SwitchMembers, SafetyMonitorMembers, DomeMembers, CameraMembers,
           FilterWheelMembers, TelescopeMembers, RotatorMembers, FocuserMembers}

\* The methods an object of a facade class has: its own and Device's.
MembersOf(class) == {m \in Members : m.owner \in {"Device", class}}

UTCDateShapeLenient(v) ==
    IF v.type = "str" THEN Return(v)
    ELSE IF v.type = "datetime" THEN Return(PyStr(isoformat(v.dt)))
    ELSE Return(v)

UTCDateShapeIsInstance(v) ==
    IF IsInstance(v, "str") THEN Return(PyStr(v.s))
    ELSE IF IsInstance(v, "datetime") THEN Return(PyStr(isoformat(v.dt)))
    ELSE Raise("TypeError", "")

\* Telescope.UTCDate setter: the value sent under UTCDate, or TypeError.
UTCDateShape(v) ==
    IF v.type = "str" THEN Return(v)
    ELSE IF v.type = "datetime" THEN Return(PyStr(isoformat(v.dt)))
    ELSE Raise("TypeError", "")

PrepareUnderValue(m, args) ==
    Return([k \in 1..Len(m.keys) |-> <<"Value", args[k]>>])

\* The keyword parameters a method hands to the executor, or the exception it
\* raises before calling the executor.
Prepare(m, args) ==
    IF m.shape = "utcdate"
    THEN LET shaped == UTCDateShape(args[1])
         IN  IF shaped.kind = "raise" THEN shaped
             ELSE Return(<<<<m.keys[1], shaped.value>>>>)
    ELSE Return([k \in 1..Len(m.keys) |-> <<m.keys[k], args[k]>>])

\* The request a method issues for prepared parameters.
IssueRequest(self, m, data) ==
    IF m.verb = "_get"
    THEN Device_get_request(self, m.attribute, data)
    ELSE Device_put_request(self, m.attribute, data)

\* What the executor produces from the response.
ExecutorResult(m, response) ==
    IF m.verb = "_get" THEN Device_get_finish(response)
    ELSE Device_put_finish(response)

\* The text of a str the server sends, cut into pieces: separators, blanks
\* and digits of timestamps are pieces of their own.
TextPieces(s) ==
    CASE s = "" -> <<>>
      [] s = "2024-01-01T00:00:00" ->
             <<"2", "0", "2", "4", "-", "0", "1", "-", "0", "1", "T",
               "0", "0", ":", "0", "0", ":", "0", "0">>
      [] s = "Alpaca Simulator, v0.1 " ->
             <<"Alpaca", " ", "Simulator", ",", " ", "v0.1", " ">>
      [] s = " a,, b ," -> <<" ", "a", ",", ",", " ", "b", " ", ",">>
      [] s = "0999-12-31T23:59:09.000500" ->
             <<"0", "9", "9", "9", "-", "1", "2", "-", "3", "1", "T",
             "2", "3", ":", "5", "9", ":", "0", "9", ".", "0", "0", "0",
             "5", "0", "0">>
      [] s = "2024-06-30T12:05:00-05:30" ->
             <<"2", "0", "2", "4", "-", "0", "6", "-", "3", "0", "T",
             "1", "2", ":", "0", "5", ":", "0", "0", "-", "0", "5", ":",
             "3", "0">>
      [] s = "2024-06-30T12:05:00+00:00:30" ->
             <<"2", "0", "2", "4", "-", "0", "6", "-", "3", "0", "T",
             "1", "2", ":", "0", "5", ":", "0", "0", "+", "0", "0", ":",
             "0", "0", ":", "3", "0">>
      [] OTHER -> <<s>>

\* s.split(sep): the runs between separators, empty runs included.
RECURSIVE SplitOn(_, _, _)
SplitOn(pieces, sep, run) ==
    IF pieces = <<>> THEN <<run>>
    ELSE IF Head(pieces) = sep
         THEN <<run>> \o SplitOn(Tail(pieces), sep, <<>>)
         ELSE SplitOn(Tail(pieces), sep, Append(run, Head(pieces)))

DriverInfoResultVerbatim(value) == Return(value)

\* [i.strip() for i in value.split(",")]
DriverInfoResult(value) ==
    IF value.type # "str"
    THEN Raise("AttributeError", "split")
    ELSE LET parts == SplitOn(TextPieces(value.s), ",", <<>>)
         IN  Return(PyList([k \in 1..Len(parts) |->
                                PyStr(Str(RStrip(LStrip(parts[k]))))]))

\* The digits of pieces from..to, as a number.
Field(pieces, from, to) == DigitsValue(SubSeq(pieces, from, to), 0)

DaysInMonth(year, month) ==
    IF month \in {4, 6, 9, 11} THEN 30
    ELSE IF month # 2 THEN 31
    ELSE IF year % 4 = 0 /\ (year % 100 # 0 \/ year % 400 = 0) THEN 29
    ELSE 28

\* YYYY-MM-DD, then T or a blank, then HH:MM:SS, at the start of the text.
IsTimestamp(pieces) ==
    /\ Len(pieces) >= 19
    /\ \A k \in {1, 2, 3, 4, 6, 7, 9, 10, 12, 13, 15, 16, 18, 19} : IsDigit(pieces[k])
    /\ pieces[5] = "-" /\ pieces[8] = "-"
    /\ pieces[11] \in {"T", " "}
    /\ pieces[14] = ":" /\ pieces[17] = ":"
    /\ Field(pieces, 6, 7) \in 1..12
    /\ Field(pieces, 9, 10) \in 1..DaysInMonth(Field(pieces, 1, 4), Field(pieces, 6, 7))
    /\ Field(pieces, 12, 13) \in 0..23
    /\ Field(pieces, 15, 16) \in 0..59
    /\ Field(pieces, 18, 19) \in 0..59

\* The index of the last digit of the fraction of the seconds, 19 if the
\* seconds have no fraction.
FractionEnd(pieces) ==
    IF Len(pieces) >= 21 /\ pieces[20] = "." /\ IsDigit(pieces[21])
    THEN CHOOSE k \in 21..Len(pieces) :
             /\ \A j \in 21..k : IsDigit(pieces[j])
             /\ k = Len(pieces) \/ ~IsDigit(pieces[k + 1])
    ELSE 19

\* The fraction of the seconds in microseconds: its first six digits, zeros
\* added on the right.
RECURSIVE Microsecond(_, _)
Microsecond(digits, width) ==
    IF width = 0 THEN 0
    ELSE IF digits = <<>> THEN 0
    ELSE DigitValue(Head(digits)) * (10 ^ (width - 1))
             + Microsecond(Tail(digits), width - 1)

\* The UTC offset written after the time: none, Z, or a sign with HH, HHMM
\* or HH:MM.  Anything else after the time is refused.
ParseOffset(tail) ==
    LET signed == Len(tail) >= 1 /\ tail[1] \in {"+", "-"}
        sign == IF signed /\ tail[1] = "-" THEN -1 ELSE 1
        digitsAt(ks) == \A k \in ks : IsDigit(tail[k])
    IN  IF tail = <<>> THEN Return(Naive)
        ELSE IF tail = <<"Z">> THEN Return(Offset(0))
        ELSE IF signed /\ Len(tail) = 6 /\ tail[4] = ":" /\ digitsAt({2, 3, 5, 6})
        THEN Return(Offset(sign * (60 * Field(tail, 2, 3) + Field(tail, 5, 6))))
        ELSE IF signed /\ Len(tail) = 5 /\ digitsAt({2, 3, 4, 5})
        THEN Return(Offset(sign * (60 * Field(tail, 2, 3) + Field(tail, 4, 5))))
        ELSE IF signed /\ Len(tail) = 3 /\ digitsAt({2, 3})
        THEN Return(Offset(sign * 60 * Field(tail, 2, 3)))
        ELSE Raise("ParserError", Str(tail))

\* dateutil.parser.parse(value), for the texts of TextPieces: a timestamp,
\* with or without a fraction of the seconds and a UTC offset, gives a
\* datetime; any other text is refused.
UTCDateResult(value) ==
    IF value.type # "str"
    THEN Raise("TypeError", "Parser must be a string or character stream")
    ELSE LET pieces == TextPieces(value.s)
         IN  IF ~IsTimestamp(pieces) THEN Raise("ParserError", value.s)
             ELSE LET last == FractionEnd(pieces)
                      tz == ParseOffset(SubSeq(pieces, last + 1, Len(pieces)))
                  IN  IF tz.kind = "raise" THEN Raise("ParserError", value.s)
                      ELSE Return(PyDatetime(DateTime(
                               Field(pieces, 1, 4), Field(pieces, 6, 7),
                               Field(pieces, 9, 10), Field(pieces, 12, 13),
                               Field(pieces, 15, 16), Field(pieces, 18, 19),
                               Microsecond(SubSeq(pieces, 21, last), 6),
                               tz.value)))

MethodResultSwallowing(m, produced) ==
    IF produced.kind = "raise" THEN Return(PyNone) ELSE produced

\* What the method gives its caller, from what the executor produced.
MethodResult(m, produced) ==
    IF produced.kind = "raise" THEN produced
    ELSE CASE m.post = "result" -> produced
           [] m.post = "Value" -> GetItem(produced.value, "Value")
           [] m.post = "drop" -> Return(PyNone)
           [] m.post = "split" -> DriverInfoResult(produced.value)
           [] m.post = "parse" -> UTCDateResult(produced.value)


----------------------------------------------------------------------------
(* Inputs: what callers pass and what the server answers.                   *)

Callers == {"c1", "c2"}
FacadeIds == {"scope", "sw"}

Statuses == {200, 400, 500, 404}

Bodies ==
    {JsonBody("{\"ErrorNumber\":0,\"ErrorMessage\":\"\",\"Value\":12.5}",
              [ErrorNumber |-> PyInt(0), ErrorMessage |-> PyStr(""),
               Value |-> PyFloat("12.5")]),
     JsonBody("{\"ErrorNumber\":0,\"ErrorMessage\":\"\",\"Value\":\"2024-01-01T00:00:00\"}",
              [ErrorNumber |-> PyInt(0), ErrorMessage |-> PyStr(""),
               Value |-> PyStr("2024-01-01T00:00:00")]),
     JsonBody("{\"ErrorNumber\":0,\"ErrorMessage\":\"\"}",
              [ErrorNumber |-> PyInt(0), ErrorMessage |-> PyStr("")]),
     JsonBody("{\"ErrorNumber\":1025,\"ErrorMessage\":\"Invalid switch id\"}",
              [ErrorNumber |-> PyInt(1025), ErrorMessage |-> PyStr("Invalid switch id")]),
     JsonBody("{\"ErrorNumber\":-7,\"ErrorMessage\":\"Not connected\",\"Value\":false}",
              [ErrorNumber |-> PyInt(-7), ErrorMessage |-> PyStr("Not connected"),
               Value |-> PyBool(FALSE)]),
     JsonBody("{\"ErrorNumber\":1024}", [ErrorNumber |-> PyInt(1024)]),
     TextBody("Bad parameter"),
     TextBody("")}

Responses == {Response(st, b) : st \in Statuses, b \in Bodies}

Midnight2024 == DateTime(2024, 1, 1, 0, 0, 0, 0, Naive)

UTCDateInputs ==
    {PyStr("2024-01-01T00:00:00"),
     PyStr("tomorrow"),
     PyDatetime(Midnight2024),
     PyDatetime(DateTime(999, 12, 31, 23, 59, 9, 500, Naive)),
     PyDatetime(DateTime(2024, 6, 30, 12, 5, 0, 0, Offset(-330))),
     PyDatetimeSubclass(Midnight2024),
     PyStrSubclass("2024-01-01T00:00:00"),
     PyDate(2024, 1, 1),
     PyInt(1704067200),
     PyNone}

\* The values a caller passes for a parameter.
ArgChoices(key) ==
    CASE key = "UTCDate" -> UTCDateInputs
      [] key = "Parameters" -> {PyTuple(<<>>), PyTuple(<<PyInt(1), PyStr("a")>>)}
      [] key = "Action" -> {PyStr("reset")}
      [] key = "Command" -> {PyStr(":GR#")}
      [] key \in {"Raw", "Connected", "State"} -> {PyBool(TRUE), PyBool(FALSE)}
      [] key = "Id" -> {PyInt(0), PyInt(1)}
      [] key = "TargetRightAscension" -> {PyFloat("12.5")}
      [] OTHER -> {PyInt(1)}

RECURSIVE ArgTuples(_)
ArgTuples(keys) ==
    IF keys = <<>> THEN {<<>>}
    ELSE {<<v>> \o rest : v \in ArgChoices(Head(keys)), rest \in ArgTuples(Tail(keys))}

RECURSIVE Join(_)
Join(components) ==
    IF Len(components) = 1 THEN components[1]
    ELSE components[1] \o <<"/">> \o Join(Tail(components))

FirstComponents ==
    {<<"Switch">>, <<"SafetyMonitor">>, <<"Dome">>, <<"Camera">>,
     <<"FilterWheel">>, <<"Telescope">>, <<"Rotator">>, <<"Focuser">>,
     <<"switch">>, <<"safetymonitor">>, <<"dome">>, <<"camera">>,
     <<"filterwheel">>, <<"telescope">>, <<"rotator">>, <<"focuser">>,
     <<"Device">>, <<"NumericError">>, <<"ErrorMessage">>, <<"CreateClient">>,
     <<"datetime">>, <<"List">>, <<"requests">>, <<"DEFAULT", "_", "API", "_", "VERSION">>,
     <<"Weather">>, <<>>}

AddressComponents ==
    {<<"1", "0", ".", "0", ".", "0", ".", "5">>,
     <<"localhost:", "1", "1", "1", "1", "1">>,
     <<"Telescope">>}

NumberComponents ==
    {<<"0">>, <<"1", "2">>, <<"0", "0", "7">>, <<"-", "1">>, <<" ", "3", " ">>,
     <<"1", "_", "0">>, <<"x">>, <<"1", ".", "5">>, <<>>}

ExtraComponents == {<<"9">>}

RECURSIVE ExtraTails(_)
ExtraTails(n) ==
    IF n = 0 THEN {<<>>}
    ELSE ExtraTails(n - 1)
         \cup {Append(t, e) : t \in ExtraTails(n - 1), e \in ExtraComponents}

Descriptors ==
    {Join(<<f>>) : f \in FirstComponents}
    \cup {Join(<<f, a>>) : f \in FirstComponents, a \in AddressComponents}
    \cup {Join(<<f, a, n>> \o x) :
            f \in FirstComponents, a \in AddressComponents,
            n \in NumberComponents, x \in ExtraTails(MaxExtra)}

DirectAddresses == {"10.0.0.5", "localhost:11111"}
Protocalls == {"http", "https"}
DeviceTypes == {"telescope", "dome", "observingconditions"}

----------------------------------------------------------------------------
(* Construction: the factory and the facade constructors.                   *)

NotBuilt == [via |-> "none"]

FactoryBuildConnecting(name) ==
    /\ built = NotBuilt
    /\ built' = [via |-> "CreateClient", name |-> name, result |-> CreateClient(name)]
    /\ issued' = issued + 1
    /\ UNCHANGED <<obj, pc, call, sent, resp, inner, outcome, wire,
                   origin, validated, rounds, prev>>

\* CreateClient(name)
FactoryBuild(name) ==
    /\ built = NotBuilt
    /\ built' = [via |-> "CreateClient", name |-> name, result |-> CreateClient(name)]
    /\ UNCHANGED <<obj, pc, call, sent, resp, inner, outcome, wire, issued,
                   origin, validated, rounds, prev>>

\* Device(address, device_type, device_number, protocall, api_version)
DeviceBuild(address, device_type, device_number, protocall, api_version) ==
    /\ built = NotBuilt
    /\ built' = [via |-> "Device", class |-> "Device",
                 args |-> [address |-> address, device_type |-> device_type,
                           device_number |-> device_number,
                           protocall |-> protocall, api_version |-> api_version],
                 result |-> Return(Device__init__("Device", address, device_type,
                                                  device_number, protocall,
                                                  api_version))]
    /\ UNCHANGED <<obj, pc, call, sent, resp, inner, outcome, wire, issued,
                   origin, validated, rounds, prev>>

\* <Facade>(address, device_number, protocall, api_version)
DirectBuild(class, address, device_number, protocall, api_version) ==
    /\ built = NotBuilt
    /\ built' = [via |-> "constructor", class |-> class,
                 args |-> [address |-> address, device_number |-> device_number,
                           protocall |-> protocall, api_version |-> api_version],
                 result |-> Return(Facade__init__(class, address, device_number,
                                                  protocall, api_version))]
    /\ UNCHANGED <<obj, pc, call, sent, resp, inner, outcome, wire, issued,
                   origin, validated, rounds, prev>>

\* <Facade>(address, device_number)
DefaultBuild(class, address, device_number) ==
    /\ built = NotBuilt
    /\ built' = [via |-> "defaults", class |-> class,
                 args |-> [address |-> address, device_number |-> device_number],
                 result |-> Return(Facade__init__(class, address, device_number,
                                                  DefaultProtocall,
                                                  DEFAULT_API_VERSION))]
    /\ UNCHANGED <<obj, pc, call, sent, resp, inner, outcome, wire, issued,
                   origin, validated, rounds, prev>>

\* The codes and texts exceptions are built from.
ErrorNumbers == {-7, 1, 9, 10, 255, 1024, 1025, 1279}
ErrorTexts == {"", "Invalid switch id", "Not connected", "Error 1: x", "1025", "%d"}

\* NumericError(ErrorNumber, ErrorMessage), and its display text
NumericErrorBuild(ErrorNumber, ErrorMessage) ==
    /\ built = NotBuilt
    /\ built' = [via |-> "NumericError",
                 args |-> [ErrorNumber |-> ErrorNumber, ErrorMessage |-> ErrorMessage],
                 result |-> Return(NumericError__init__(PyInt(ErrorNumber),
                                                        PyStr(ErrorMessage))),
                 text |-> Exception__str__(NumericError__init__(PyInt(ErrorNumber),
                                                                PyStr(ErrorMessage)))]
    /\ UNCHANGED <<obj, pc, call, sent, resp, inner, outcome, wire, issued,
                   origin, validated, rounds, prev>>

\* ErrorMessage(Value), and its display text
ErrorMessageBuild(Value) ==
    /\ built = NotBuilt
    /\ built' = [via |-> "ErrorMessage", args |-> [Value |-> Value],
                 result |-> Return(ErrorMessage__init__(Value)),
                 text |-> Exception__str__(ErrorMessage__init__(Value))]
    /\ UNCHANGED <<obj, pc, call, sent, resp, inner, outcome, wire, issued,
                   origin, validated, rounds, prev>>

----------------------------------------------------------------------------
(* Calls on a facade: invoke, the server's answer, completion.              *)

NoCall == [facade |-> "none"]

RequestsOfTwice(self, m, data) ==
    <<IssueRequest(self, m, data), IssueRequest(self, m, data)>>

\* The requests a method issues for prepared parameters: every method body
\* holds one call of the executor, outside any loop or condition.
RequestsOf(self, m, data) == <<IssueRequest(self, m, data)>>

\* The call without waiting for its round trip: the request goes out and
\* the caller carries on with None.
InvokeDetached(t, f, m, args) ==
    /\ pc[t] = "idle"
    /\ issued < MaxRequests
    /\ call' = [call EXCEPT ![t] = [facade |-> f, self |-> obj[f],
                                    method |-> m, args |-> args]]
    /\ resp' = [resp EXCEPT ![t] = NoResponse]
    /\ inner' = [inner EXCEPT ![t] = NoResult]
    /\ LET prepared == Prepare(m, args)
       IN  IF prepared.kind = "raise"
           THEN /\ outcome' = [outcome EXCEPT ![t] = prepared]
                /\ sent' = [sent EXCEPT ![t] = NoRequest]
                /\ rounds' = [rounds EXCEPT ![t] = 0]
                /\ UNCHANGED <<pc, wire, issued, validated>>
           ELSE LET requests == RequestsOf(obj[f], m, prepared.value)
                IN  /\ sent' = [sent EXCEPT ![t] = requests[Len(requests)]]
                    /\ wire' = wire \cup {[caller |-> t, request |-> requests[k]] :
                                              k \in 1..Len(requests)}
                    /\ issued' = issued + Len(requests)
                    /\ rounds' = [rounds EXCEPT ![t] = Len(requests)]
                    /\ validated' = validated + 1
                    /\ outcome' = [outcome EXCEPT ![t] = Return(PyNone)]
                    /\ UNCHANGED pc
    /\ UNCHANGED <<built, obj, origin>>

\* A caller enters a facade method.  The method either raises before any
\* request, or hands one request to the transport and blocks.
Invoke(t, f, m, args) ==
    /\ pc[t] = "idle"
    /\ issued < MaxRequests
    /\ call' = [call EXCEPT ![t] = [facade |-> f, self |-> obj[f],
                                    method |-> m, args |-> args]]
    /\ resp' = [resp EXCEPT ![t] = NoResponse]
    /\ inner' = [inner EXCEPT ![t] = NoResult]
    /\ LET prepared == Prepare(m, args)
       IN  IF prepared.kind = "raise"
           THEN /\ outcome' = [outcome EXCEPT ![t] = prepared]
                /\ sent' = [sent EXCEPT ![t] = NoRequest]
                /\ rounds' = [rounds EXCEPT ![t] = 0]
                /\ UNCHANGED <<pc, wire, issued, validated>>
           ELSE LET requests == RequestsOf(obj[f], m, prepared.value)
                IN  /\ sent' = [sent EXCEPT ![t] = requests[Len(requests)]]
                    /\ wire' = wire \cup {[caller |-> t, request |-> requests[k]] :
                                              k \in 1..Len(requests)}
                    /\ issued' = issued + Len(requests)
                    /\ rounds' = [rounds EXCEPT ![t] = Len(requests)]
                    /\ validated' = validated + 1
                    /\ outcome' = [outcome EXCEPT ![t] = NoResult]
                    /\ pc' = [pc EXCEPT ![t] = "waiting"]
    /\ UNCHANGED <<built, obj, origin>>

\* The server answers a request in flight.
Respond(t, response) ==
    /\ pc[t] = "waiting"
    /\ [caller |-> t, request |-> sent[t]] \in wire
    /\ wire' = wire \ {[caller |-> t, request |-> sent[t]]}
    /\ resp' = [resp EXCEPT ![t] = response]
    /\ pc' = [pc EXCEPT ![t] = "responded"]
    /\ UNCHANGED <<built, obj, call, sent, inner, outcome, issued,
                   origin, validated, rounds, prev>>

CompleteShared(t) ==
    /\ pc[t] = "responded"
    /\ LET u == CHOOSE v \in Callers : v # t
           latest == IF resp[u] # NoResponse THEN resp[u] ELSE resp[t]
           produced == ExecutorResult(call[t].method, latest)
       IN  /\ inner' = [inner EXCEPT ![t] = produced]
           /\ outcome' = [outcome EXCEPT ![t] = MethodResult(call[t].method, produced)]
    /\ pc' = [pc EXCEPT ![t] = "idle"]
    /\ UNCHANGED <<built, obj, call, sent, resp, wire, issued,
                   origin, validated, rounds, prev>>

\* The blocked call resumes: the executor classifies the response, and the
\* method returns to its caller or raises.
Complete(t) ==
    /\ pc[t] = "responded"
    /\ LET produced == ExecutorResult(call[t].method, resp[t])
       IN  /\ inner' = [inner EXCEPT ![t] = produced]
           /\ outcome' = [outcome EXCEPT ![t] = MethodResult(call[t].method, produced)]
    /\ pc' = [pc EXCEPT ![t] = "idle"]
    /\ UNCHANGED <<built, obj, call, sent, resp, wire, issued,
                   origin, validated, rounds, prev>>

----------------------------------------------------------------------------
(* Specifications.                                                          *)

ScopeObjects ==
    {CreateClient(<<"Telescope", "/", "1", "0", ".", "0", ".", "0", ".", "5",
                    "/", "0">>).value,
     Facade__init__("Telescope", "localhost:11111", 1, "https", 2)}

SwitchObjects == {Facade__init__("Switch", "10.0.0.5", 0, "http", 1)}

Init ==
    /\ built = NotBuilt
    /\ obj \in {[f \in FacadeIds |-> IF f = "scope" THEN s ELSE w] :
                    s \in ScopeObjects, w \in SwitchObjects}
    /\ pc = [t \in Callers |-> "idle"]
    /\ call = [t \in Callers |-> NoCall]
    /\ sent = [t \in Callers |-> NoRequest]
    /\ resp = [t \in Callers |-> NoResponse]
    /\ inner = [t \in Callers |-> NoResult]
    /\ outcome = [t \in Callers |-> NoResult]
    /\ wire = {}
    /\ issued = 0
    /\ origin = obj
    /\ validated = 0
    /\ rounds = [t \in Callers |-> 0]
    /\ prev = [t \in Callers |-> NoCall]

\* The fields of a facade that code outside the class can assign, and the
\* values assigned here.
Reassigned ==
    [address |-> "192.168.1.9", device_type |-> "covercalibrator",
     device_number |-> 7, api_version |-> 3]

\* The facade whose fields are reassigned.
Retargeted == {"scope"}

\* Code outside the class assigns one of a facade's public fields.
Reassign(f, field) ==
    /\ obj[f][field] # Reassigned[field]
    /\ obj' = [obj EXCEPT ![f][field] = Reassigned[field]]
    /\ UNCHANGED <<built, pc, call, sent, resp, inner, outcome, wire, issued,
                   origin, validated, rounds, prev>>

\* One caller making calls one after another.
Next ==
    \/ \E f \in FacadeIds : \E m \in MethodsOf(obj[f].class) :
           \E args \in ArgTuples(m.keys) :
               Invoke("c1", f, m, args) /\ UNCHANGED prev
    \/ \E response \in Responses : Respond("c1", response)
    \/ Complete("c1")

Spec == Init /\ [][Next]_vars

\* The answers of a server that is up and answers well-formed JSON.
PlainResponses ==
    {Response(200, JsonBody("{\"ErrorNumber\":0,\"ErrorMessage\":\"\",\"Value\":12.5}",
                            [ErrorNumber |-> PyInt(0), ErrorMessage |-> PyStr(""),
                             Value |-> PyFloat("12.5")])),
     Response(200, JsonBody("{\"ErrorNumber\":1025,\"ErrorMessage\":\"Invalid switch id\"}",
                            [ErrorNumber |-> PyInt(1025),
                             ErrorMessage |-> PyStr("Invalid switch id")]))}

\* One caller making calls that take no parameters, while code outside the
\* class reassigns fields of the facades at any moment.
NextMutable ==
    \/ \E f \in FacadeIds : \E m \in MethodsOf(obj[f].class) :
           m.keys = <<>> /\ Invoke("c1", f, m, <<>>) /\ UNCHANGED prev
    \/ \E response \in PlainResponses : Respond("c1", response)
    \/ Complete("c1")
    \/ \E f \in Retargeted : \E field \in DOMAIN Reassigned : Reassign(f, field)

SpecMutable == Init /\ [][NextMutable]_vars

\* What is kept of caller t's call when t enters its next one.
Snapshot(t) ==
    IF call[t] = NoCall THEN NoCall
    ELSE [facade |-> call[t].facade, call |-> call[t], sent |-> sent[t],
          resp |-> resp[t], inner |-> inner[t], outcome |-> outcome[t]]

\* The methods called in pairs: reads without and with a parameter, writes.
PairedMethods ==
    {m \in Methods : m.name \in {"Name", "TargetRightAscension",
                                  "GetSwitch", "SetSwitch"}}

\* The answers given to paired calls: each way the classification can go.
PairedResponses ==
    {Response(st, b) :
        st \in {200, 400, 404},
        b \in {JsonBody("{\"ErrorNumber\":0,\"ErrorMessage\":\"\",\"Value\":12.5}",
                        [ErrorNumber |-> PyInt(0), ErrorMessage |-> PyStr(""),
                         Value |-> PyFloat("12.5")]),
               JsonBody("{\"ErrorNumber\":1025,\"ErrorMessage\":\"Invalid switch id\"}",
                        [ErrorNumber |-> PyInt(1025),
                         ErrorMessage |-> PyStr("Invalid switch id")]),
               TextBody("Bad parameter")}}

\* One caller making calls one after another; the call before the current
\* one is kept for comparison.
NextTwice ==
    \/ \E f \in FacadeIds : \E m \in MethodsOf(obj[f].class) \cap PairedMethods :
           \E args \in ArgTuples(m.keys) :
               /\ Invoke("c1", f, m, args)
               /\ prev' = [prev EXCEPT !["c1"] = Snapshot("c1")]
    \/ \E response \in PairedResponses : Respond("c1", response)
    \/ Complete("c1")

SpecTwice == Init /\ [][NextTwice]_vars

\* One facade of each class, at the same address.
TableObjects ==
    {Facade__init__(class, "10.0.0.5", 0, "http", 1) : class \in FacadeClasses}

\* The answers given to calls of the full member tables: a number, a text
\* with a separator and blanks, a timestamp, an error of the device, a
\* request the server refuses.
TableResponses ==
    {Response(200, JsonBody("{\"ErrorNumber\":0,\"ErrorMessage\":\"\",\"Value\":12.5}",
                            [ErrorNumber |-> PyInt(0), ErrorMessage |-> PyStr(""),
                             Value |-> PyFloat("12.5")])),
     Response(200, JsonBody("{\"ErrorNumber\":0,\"ErrorMessage\":\"\",\"Value\":\"Alpaca Simulator, v0.1 \"}",
                            [ErrorNumber |-> PyInt(0), ErrorMessage |-> PyStr(""),
                             Value |-> PyStr("Alpaca Simulator, v0.1 ")])),
     Response(200, JsonBody("{\"ErrorNumber\":0,\"ErrorMessage\":\"\",\"Value\":\"2024-01-01T00:00:00\"}",
                            [ErrorNumber |-> PyInt(0), ErrorMessage |-> PyStr(""),
                             Value |-> PyStr("2024-01-01T00:00:00")])),
     Response(200, JsonBody("{\"ErrorNumber\":1025,\"ErrorMessage\":\"Invalid switch id\"}",
                            [ErrorNumber |-> PyInt(1025),
                             ErrorMessage |-> PyStr("Invalid switch id")])),
     Response(200, JsonBody("{\"ErrorNumber\":0,\"ErrorMessage\":\"\",\"Value\":\" a,, b ,\"}",
                            [ErrorNumber |-> PyInt(0), ErrorMessage |-> PyStr(""),
                             Value |-> PyStr(" a,, b ,")])),
     Response(400, TextBody("Bad parameter"))}

\* The first facade is of any of the eight classes.
InitTable ==
    /\ built = NotBuilt
    /\ obj \in {[f \in FacadeIds |-> IF f = "scope" THEN o ELSE w] :
                    o \in TableObjects, w \in SwitchObjects}
    /\ pc = [t \in Callers |-> "idle"]
    /\ call = [t \in Callers |-> NoCall]
    /\ sent = [t \in Callers |-> NoRequest]
    /\ resp = [t \in Callers |-> NoResponse]
    /\ inner = [t \in Callers |-> NoResult]
    /\ outcome = [t \in Callers |-> NoResult]
    /\ wire = {}
    /\ issued = 0
    /\ origin = obj
    /\ validated = 0
    /\ rounds = [t \in Callers |-> 0]
    /\ prev = [t \in Callers |-> NoCall]

\* One caller making one call, of any member of the facade's class.
NextTable ==
    \/ \E f \in FacadeIds : \E m \in MembersOf(obj[f].class) :
           \E args \in ArgTuples(m.keys) :
               /\ call["c1"] = NoCall
               /\ Invoke("c1", f, m, args)
               /\ UNCHANGED prev
    \/ \E response \in TableResponses : Respond("c1", response)
    \/ Complete("c1")

SpecTable == InitTable /\ [][NextTable]_vars

\* The values written to the telescope's clock: naive datetimes without and
\* with microseconds, datetimes with a UTC offset of whole minutes and of
\* thirty seconds, a str.
ClockValues ==
    {PyDatetime(Midnight2024),
     PyDatetime(DateTime(999, 12, 31, 23, 59, 9, 500, Naive)),
     PyDatetime(DateTime(2024, 6, 30, 12, 5, 0, 0, Offset(-330))),
     PyDatetime(DateTime(2024, 6, 30, 12, 5, 0, 0, OffsetSeconds(0, 30))),
     PyStr("2024-01-01T00:00:00")}

\* The two accessors of the telescope's clock.
ClockMethods == {m \in TelescopeMembers : m.name = "UTCDate"}

\* What the server answers a write with, and a read it cannot serve.
ClockResponses ==
    {Response(200, JsonBody("{\"ErrorNumber\":0,\"ErrorMessage\":\"\"}",
                            [ErrorNumber |-> PyInt(0), ErrorMessage |-> PyStr("")])),
     Response(400, TextBody("Bad parameter"))}

\* The answer of a server that returns, as Value, the str the write before
\* this read carried under UTCDate.
StoredResponse(t) ==
    LET stored == prev[t].sent.data[1][2]
    IN  Response(200,
                 JsonBody("{\"ErrorNumber\":0,\"ErrorMessage\":\"\",\"Value\":\""
                              \o stored.s \o "\"}",
                          [ErrorNumber |-> PyInt(0), ErrorMessage |-> PyStr(""),
                           Value |-> stored]))

\* A read of utcdate that follows an accepted write of utcdate is answered
\* with what was written.
RespondStored(t) ==
    /\ call[t] # NoCall
    /\ call[t].method.name = "UTCDate"
    /\ call[t].method.verb = "_get"
    /\ prev[t] # NoCall
    /\ prev[t].call.method.name = "UTCDate"
    /\ prev[t].call.method.verb = "_put"
    /\ prev[t].call.facade = call[t].facade
    /\ prev[t].outcome = Return(PyNone)
    /\ Respond(t, StoredResponse(t))

\* One caller setting and reading the clock of the telescope.
NextClock ==
    \/ \E m \in ClockMethods :
           \E args \in IF m.keys = <<>> THEN {<<>>} ELSE {<<v>> : v \in ClockValues} :
               /\ Invoke("c1", "scope", m, args)
               /\ prev' = [prev EXCEPT !["c1"] = Snapshot("c1")]
    \/ \E response \in ClockResponses : Respond("c1", response)
    \/ RespondStored("c1")
    \/ Complete("c1")

SpecClock == Init /\ [][NextClock]_vars

\* Two callers, each making calls one after another, on the same facade or
\* on different ones, in any interleaving.
NextConcurrent ==
    \/ \E t \in Callers, f \in FacadeIds :
           \E m \in MethodsOf(obj[f].class) \cap PairedMethods :
               \E args \in ArgTuples(m.keys) :
                   Invoke(t, f, m, args) /\ UNCHANGED prev
    \/ \E t \in Callers, response \in PlainResponses : Respond(t, response)
    \/ \E t \in Callers : Complete(t)

SpecConcurrent == Init /\ [][NextConcurrent]_vars

\* The failures requests.get / requests.put raise instead of returning a
\* response.
TransportFailures == {"ConnectionError", "Timeout"}

\* requests.get / requests.put raises: nothing in _get / _put or in the
\* method catches it, so the call ends with that failure.
Fail(t, exc) ==
    /\ pc[t] = "waiting"
    /\ [caller |-> t, request |-> sent[t]] \in wire
    /\ wire' = wire \ {[caller |-> t, request |-> sent[t]]}
    /\ inner' = [inner EXCEPT ![t] = Raise(exc, "")]
    /\ outcome' = [outcome EXCEPT ![t] = Raise(exc, "")]
    /\ pc' = [pc EXCEPT ![t] = "idle"]
    /\ UNCHANGED <<built, obj, call, sent, resp, issued,
                   origin, validated, rounds, prev>>

\* The transport's step for caller t: a response or a failure.
Deliver(t) ==
    \/ \E response \in PlainResponses : Respond(t, response)
    \/ \E exc \in TransportFailures : Fail(t, exc)

NextLive ==
    \/ \E t \in Callers, f \in FacadeIds :
           \E m \in MethodsOf(obj[f].class) \cap PairedMethods :
               \E args \in ArgTuples(m.keys) :
                   Invoke(t, f, m, args) /\ UNCHANGED prev
    \/ \E t \in Callers : Deliver(t)
    \/ \E t \in Callers : Complete(t)

\* The transport eventually delivers, and a caller holding its response
\* runs the rest of _get / _put and of the method.
SpecLive ==
    /\ Init
    /\ [][NextLive]_vars
    /\ \A t \in Callers : WF_vars(Deliver(t)) /\ WF_vars(Complete(t))

\* Construction alone: the factory on a descriptor, or a constructor on
\* its arguments.
NextBuild ==
    \/ \E name \in Descriptors : FactoryBuild(name)
    \/ \E address \in DirectAddresses, device_type \in DeviceTypes,
          device_number \in 0..MaxDeviceNumber, protocall \in Protocalls,
          api_version \in 1..MaxApiVersion :
           DeviceBuild(address, device_type, device_number, protocall, api_version)
    \/ \E class \in FacadeClasses, address \in DirectAddresses,
          device_number \in 0..MaxDeviceNumber, protocall \in Protocalls,
          api_version \in 1..MaxApiVersion :
           DirectBuild(class, address, device_number, protocall, api_version)
    \/ \E class \in FacadeClasses, address \in DirectAddresses,
          device_number \in 0..MaxDeviceNumber :
           DefaultBuild(class, address, device_number)
    \/ \E ErrorNumber \in ErrorNumbers, ErrorMessage \in ErrorTexts :
           NumericErrorBuild(ErrorNumber, ErrorMessage)
    \/ \E Value \in ErrorTexts : ErrorMessageBuild(Value)

SpecBuild == Init /\ [][NextBuild]_vars

\* Device identities: host with optional port, a category of the protocol,
\* a non-negative instance number, a scheme and a protocol version.  The
\* values are chosen close to each other: one host is a prefix of the other
\* two, and the numbers and versions share digits.
IdentityAddresses == {"10.0.0.5", "10.0.0.51", "10.0.0.5:1"}
IdentityNumbers == {0, 1, 11}
IdentityVersions == {1, 11}

Identities ==
    [address : IdentityAddresses, device_type : DeviceTypes,
     device_number : IdentityNumbers, protocall : Protocalls,
     api_version : IdentityVersions]

DeviceOf(id) ==
    Device__init__("Device", id.address, id.device_type, id.device_number,
                   id.protocall, id.api_version)

\* Two devices are constructed, one after the other.
PairBuild(first, second) ==
    /\ built = NotBuilt
    /\ built' = [via |-> "pair", first |-> first, second |-> second,
                 result |-> Return(<<DeviceOf(first), DeviceOf(second)>>)]
    /\ UNCHANGED <<obj, pc, call, sent, resp, inner, outcome, wire, issued,
                   origin, validated, rounds, prev>>

NextPair == \E first \in Identities, second \in Identities : PairBuild(first, second)

SpecPair == Init /\ [][NextPair]_vars


----------------------------------------------------------------------------
(* Properties.                                                              *)

\* Caller t's call has run to its end on a response from the server.
Completed(t) == pc[t] = "idle" /\ resp[t] # NoResponse

\* The decoded JSON object of t's response, where the body is JSON.
Decoded(t) == resp[t].body.decoded

HasKey(t, key) == resp[t].body.isjson /\ key \in DOMAIN Decoded(t)

\* C1: a completed call of any kind whose response has status 200 and a JSON
\* body with a non-zero ErrorNumber (and its ErrorMessage) has raised
\* NumericError, whose text is "Error <ErrorNumber>: <ErrorMessage>" with
\* exactly the body's code and message, both inside the executor and towards
\* the caller; nothing was returned.
C1_NumericErrorCarriesCodeAndMessage ==
    \A t \in Callers :
        (/\ Completed(t)
         /\ resp[t].status_code = 200
         /\ HasKey(t, "ErrorNumber")
         /\ HasKey(t, "ErrorMessage")
         /\ Decoded(t).ErrorNumber # PyInt(0))
        => LET expected ==
                   Raise("NumericError",
                         "Error " \o ToString(Decoded(t).ErrorNumber.i) \o ": "
                             \o Decoded(t).ErrorMessage.s)
           IN  /\ inner[t] = expected
               /\ outcome[t] = expected

\* The set-switch action answered 200 with ErrorNumber 1025 has raised
\* NumericError "Error 1025: Invalid switch id".
C1_Witness ==
    \E t \in Callers :
        /\ Completed(t)
        /\ call[t].method.name = "SetSwitch"
        /\ sent[t].method = "PUT"
        /\ sent[t].url = "http://10.0.0.5/api/v1/switch/0/setswitch"
        /\ resp[t].status_code = 200
        /\ HasKey(t, "ErrorNumber")
        /\ Decoded(t).ErrorNumber = PyInt(1025)
        /\ outcome[t] = Raise("NumericError", "Error 1025: Invalid switch id")

\* C2: a completed read or write whose response has status 400 or 500 has
\* raised ErrorMessage whose message is the raw body text, whatever the body
\* holds; nothing was returned.
C2_TransportErrorCarriesRawBody ==
    \A t \in Callers :
        (Completed(t) /\ resp[t].status_code \in {400, 500})
        => /\ inner[t] = Raise("ErrorMessage", resp[t].body.text)
           /\ outcome[t] = Raise("ErrorMessage", resp[t].body.text)

\* A call answered 500 with a JSON body that names an error has raised
\* ErrorMessage with the whole body text, not the body's ErrorMessage.
C2_Witness ==
    \E t \in Callers :
        /\ Completed(t)
        /\ resp[t].status_code = 500
        /\ HasKey(t, "ErrorMessage")
        /\ Decoded(t).ErrorNumber = PyInt(1025)
        /\ outcome[t] =
               Raise("ErrorMessage",
                     "{\"ErrorNumber\":1025,\"ErrorMessage\":\"Invalid switch id\"}")

\* C3: a completed read whose response has status 200, ErrorNumber 0 and a
\* Value has returned exactly that Value from Device._get, and a plain getter
\* hands the same value to its caller.
C3_ReadReturnsValue ==
    \A t \in Callers :
        (/\ Completed(t)
         /\ call[t].method.verb = "_get"
         /\ resp[t].status_code = 200
         /\ HasKey(t, "ErrorNumber")
         /\ Decoded(t).ErrorNumber = PyInt(0)
         /\ HasKey(t, "Value"))
        => /\ inner[t] = Return(Decoded(t).Value)
           /\ call[t].method.post = "result" => outcome[t] = Return(Decoded(t).Value)

\* Telescope.RightAscension, answered {ErrorNumber 0, Value 12.5} on
\* GET .../telescope/0/rightascension, has returned 12.5.
C3_Witness ==
    \E t \in Callers :
        /\ Completed(t)
        /\ call[t].method.name = "RightAscension"
        /\ sent[t].method = "GET"
        /\ sent[t].url = "http://10.0.0.5/api/v1/telescope/0/rightascension"
        /\ resp[t].status_code = 200
        /\ outcome[t] = Return(PyFloat("12.5"))

\* The lower-case wire name of each facade class.
WireName(class) ==
    CASE class = "Switch" -> "switch"
      [] class = "SafetyMonitor" -> "safetymonitor"
      [] class = "Dome" -> "dome"
      [] class = "Camera" -> "camera"
      [] class = "FilterWheel" -> "filterwheel"
      [] class = "Telescope" -> "telescope"
      [] class = "Rotator" -> "rotator"
      [] class = "Focuser" -> "focuser"

\* <scheme>://<address>/api/v<version>/<category>/<instanceNumber>
ExpectedBase(scheme, address, version, category, number) ==
    scheme \o "://" \o address \o "/api/v" \o ToString(version) \o "/"
        \o category \o "/" \o ToString(number)

\* C4: an object constructed from (address, category, instance number,
\* scheme, version) has the base address
\* <scheme>://<address>/api/v<version>/<category>/<instanceNumber>.
C4_BaseAddressFormat ==
    /\ built.via = "Device"
       => built.result.value.base_url =
              ExpectedBase(built.args.protocall, built.args.address,
                           built.args.api_version, built.args.device_type,
                           built.args.device_number)
    /\ built.via = "constructor"
       => built.result.value.base_url =
              ExpectedBase(built.args.protocall, built.args.address,
                           built.args.api_version, WireName(built.class),
                           built.args.device_number)

\* A device built for https, localhost:11111, version 2, dome, number 11.
C4_Witness ==
    /\ built.via = "Device"
    /\ built.args = [address |-> "localhost:11111", device_type |-> "dome",
                     device_number |-> 11, protocall |-> "https",
                     api_version |-> 2]
    /\ built.result.value.base_url = "https://localhost:11111/api/v2/dome/11"


LowerCaseCategories ==
    {<<"switch">>, <<"safetymonitor">>, <<"dome">>, <<"camera">>,
     <<"filterwheel">>, <<"telescope">>, <<"rotator">>, <<"focuser">>}

ClassNameComponents ==
    {<<"Switch">>, <<"SafetyMonitor">>, <<"Dome">>, <<"Camera">>,
     <<"FilterWheel">>, <<"Telescope">>, <<"Rotator">>, <<"Focuser">>}

\* A non-negative instance number written in decimal, without leading zeros.
IsDecimalNumber(n) ==
    /\ n # <<>>
    /\ \A k \in 1..Len(n) : n[k] \in {"0", "1", "2", "3", "4", "5", "6", "7", "8", "9"}
    /\ Len(n) > 1 => n[1] # "0"

\* The descriptor is exactly first/address/number, with an address that is a
\* host or host:port and a decimal number.
IsDescriptorOf(name, firsts) ==
    \E c \in firsts, a \in AddressComponents, n \in NumberComponents :
        IsDecimalNumber(n) /\ name = c \o <<"/">> \o a \o <<"/">> \o n

\* The three components of a descriptor first/address/number, as text.
ComponentText(name, k) == Str(Split(name)[k])

C6_FactoryRejectsUnknownCategory ==
    built.via = "CreateClient"
    => /\ Split(built.name)[1] \notin (ClassNameComponents \cup LowerCaseCategories)
          => built.result.kind = "raise"
       /\ built.result.kind = "return"
          => built.result.value.class \in
                 {"Switch", "SafetyMonitor", "Dome", "Camera", "FilterWheel",
                  "Telescope", "Rotator", "Focuser"}

\* The parameters caller t's method passes to the executor.
PassedParameters(t) ==
    [k \in 1..Len(call[t].method.keys) |-> <<call[t].method.keys[k], call[t].args[k]>>]

\* C7: every read is a GET of <base>/<attribute> with its parameters in the
\* query string and none in the body; every write is a PUT of
\* <base>/<attribute> with its parameters in the body.
C7_ReadsUseQueryWritesUseBody ==
    \A t \in Callers :
        sent[t] # NoRequest
        => /\ sent[t].url =
                  obj[call[t].facade].base_url \o "/" \o call[t].method.attribute
           /\ call[t].method.verb = "_get"
              => /\ sent[t].method = "GET"
                 /\ sent[t].data = <<>>
                 /\ sent[t].params = PassedParameters(t)
           /\ (call[t].method.verb = "_put" /\ call[t].method.shape = "plain")
              => /\ sent[t].method = "PUT"
                 /\ sent[t].params = <<>>
                 /\ sent[t].data = PassedParameters(t)

\* C8: a completed write whose response has status 200 and ErrorNumber 0 has
\* returned, from Device._put, the whole decoded JSON object of the response.
C8_WriteReturnsWholeObject ==
    \A t \in Callers :
        (/\ Completed(t)
         /\ call[t].method.verb = "_put"
         /\ resp[t].status_code = 200
         /\ HasKey(t, "ErrorNumber")
         /\ Decoded(t).ErrorNumber = PyInt(0))
        => inner[t] = Return(PyDict(Decoded(t)))

\* A write answered with ErrorNumber, ErrorMessage and Value has returned all
\* three fields.
C8_Witness ==
    \E t \in Callers :
        /\ Completed(t)
        /\ sent[t].method = "PUT"
        /\ resp[t].status_code = 200
        /\ inner[t] = Return(PyDict([ErrorNumber |-> PyInt(0),
                                     ErrorMessage |-> PyStr(""),
                                     Value |-> PyFloat("12.5")]))

\* The ISO-8601 text of the date-time values callers pass.
Iso8601(dt) ==
    CASE dt = DateTime(2024, 1, 1, 0, 0, 0, 0, Naive) -> "2024-01-01T00:00:00"
      [] dt = DateTime(999, 12, 31, 23, 59, 9, 500, Naive)
             -> "0999-12-31T23:59:09.000500"
      [] dt = DateTime(2024, 6, 30, 12, 5, 0, 0, Offset(-330))
             -> "2024-06-30T12:05:00-05:30"

IsUTCDateSet(t) ==
    /\ call[t] # NoCall
    /\ call[t].method.name = "UTCDate"
    /\ call[t].method.access = "set"

\* C9: the UTCDate setter given a str has issued a PUT of <base>/utcdate
\* carrying that str unchanged under UTCDate; given a datetime it has issued
\* the same PUT carrying the value's ISO-8601 text.
C9_UTCDateSetterSends ==
    \A t \in Callers :
        IsUTCDateSet(t)
        => /\ call[t].args[1].type = "str"
              => sent[t] = Request("PUT",
                                   obj[call[t].facade].base_url \o "/utcdate",
                                   <<>>, <<<<"UTCDate", call[t].args[1]>>>>)
           /\ call[t].args[1].type = "datetime"
              => sent[t] = Request("PUT",
                                   obj[call[t].facade].base_url \o "/utcdate",
                                   <<>>,
                                   <<<<"UTCDate",
                                       PyStr(Iso8601(call[t].args[1].dt))>>>>)

\* The setter given the datetime 2024-01-01T00:00:00 has sent
\* "2024-01-01T00:00:00", and that is the one request issued.
C9_Witness ==
    \E t \in Callers :
        /\ IsUTCDateSet(t)
        /\ call[t].args[1] = PyDatetime(DateTime(2024, 1, 1, 0, 0, 0, 0, Naive))
        /\ sent[t].data = <<<<"UTCDate", PyStr("2024-01-01T00:00:00")>>>>
        /\ issued = 1

\* C10: the UTCDate setter given a value that is neither a str nor a
\* datetime has raised TypeError and has issued no request: none is recorded
\* for the call, none is in flight for it, and the call never waited.
C10_UTCDateSetterRejectsLocally ==
    \A t \in Callers :
        (/\ IsUTCDateSet(t)
         /\ ~IsInstance(call[t].args[1], "str")
         /\ ~IsInstance(call[t].args[1], "datetime"))
        => /\ outcome[t] = Raise("TypeError", "")
           /\ sent[t] = NoRequest
           /\ \A w \in wire : w.caller # t
           /\ pc[t] = "idle"
           /\ resp[t] = NoResponse

\* The setter given an int, as the first call made, has raised TypeError and
\* the count of issued requests is still zero.
C10_Witness ==
    \E t \in Callers :
        /\ IsUTCDateSet(t)
        /\ call[t].args[1] = PyInt(1704067200)
        /\ outcome[t] = Raise("TypeError", "")
        /\ issued = 0

\* C13: a facade constructed with only an address and an instance number
\* uses http and protocol version 1, has its own lower-case wire name as the
\* category, and has the base address
\* http://<address>/api/v1/<category>/<instanceNumber>.
C13_FacadeDefaults ==
    built.via = "defaults"
    => /\ built.result.kind = "return"
       /\ built.result.value.class = built.class
       /\ built.result.value.api_version = 1
       /\ built.result.value.device_type = WireName(built.class)
       /\ built.result.value.address = built.args.address
       /\ built.result.value.device_number = built.args.device_number
       /\ built.result.value.base_url =
              "http://" \o built.args.address \o "/api/v1/"
                  \o WireName(built.class) \o "/"
                  \o ToString(built.args.device_number)

\* SafetyMonitor("10.0.0.5", 11) has the base address
\* http://10.0.0.5/api/v1/safetymonitor/11.
C13_Witness ==
    /\ built.via = "defaults"
    /\ built.class = "SafetyMonitor"
    /\ built.args = [address |-> "10.0.0.5", device_number |-> 11]
    /\ built.result.value.base_url = "http://10.0.0.5/api/v1/safetymonitor/11"

\* The failures the classification of a response raises.
ClassificationFailures == {"ErrorMessage", "NumericError"}

IsClassificationFailure(result) ==
    result.kind = "raise" /\ result.exc \in ClassificationFailures

\* C20: for a response whose status is none of 200, 400 and 500 the
\* classification raises no failure, whatever the body's ErrorNumber: a read
\* of a JSON body holding Value has returned that Value, a write answered by
\* a JSON body has got the decoded body from the executor.
C20_OtherStatusIsSuccess ==
    \A t \in Callers :
        (Completed(t) /\ resp[t].status_code \notin {200, 400, 500})
        => /\ ~IsClassificationFailure(inner[t])
           /\ ~IsClassificationFailure(outcome[t])
           /\ (call[t].method.verb = "_get" /\ HasKey(t, "Value"))
              => inner[t] = Return(Decoded(t)["Value"])
           /\ (call[t].method.verb = "_put" /\ resp[t].body.isjson)
              => inner[t] = Return(PyDict(Decoded(t)))

\* A read answered by status 404 with ErrorNumber -7 and Value false has
\* returned false.
C20_Witness ==
    \E t \in Callers :
        /\ Completed(t)
        /\ call[t].method.verb = "_get"
        /\ resp[t].status_code = 404
        /\ HasKey(t, "ErrorNumber")
        /\ Decoded(t)["ErrorNumber"] = PyInt(-7)
        /\ outcome[t] = Return(PyBool(FALSE))

\* Caller t's current or last call is method name of access kind access.
IsCall(t, name, access) ==
    /\ call[t] # NoCall
    /\ call[t].method.name = name
    /\ call[t].method.access = access

\* C14: Device.Action has issued exactly one request, a PUT to
\* <base address>/action carrying the action name under Action and the
\* parameter tuple under Parameters, in this order; answered with status 200,
\* ErrorNumber 0 and a Value, it has returned that Value.
C14_ActionIsOneWrite ==
    \A t \in Callers :
        IsCall(t, "Action", "call")
        => /\ rounds[t] = 1
           /\ sent[t] = Request("PUT",
                                obj[call[t].facade].base_url \o "/action",
                                <<>>,
                                <<<<"Action", call[t].args[1]>>,
                                  <<"Parameters", call[t].args[2]>>>>)
           /\ pc[t] = "waiting"
              => Cardinality({w \in wire : w.caller = t}) = 1
           /\ (/\ Completed(t)
               /\ resp[t].status_code = 200
               /\ HasKey(t, "ErrorNumber")
               /\ Decoded(t)["ErrorNumber"] = PyInt(0)
               /\ HasKey(t, "Value"))
              => outcome[t] = Return(Decoded(t)["Value"])

\* Action("reset", 1, "a"), as the only call made, answered with Value 12.5,
\* has returned 12.5 after one request.
C14_Witness ==
    \E t \in Callers :
        /\ IsCall(t, "Action", "call")
        /\ call[t].args = <<PyStr("reset"), PyTuple(<<PyInt(1), PyStr("a")>>)>>
        /\ Completed(t)
        /\ resp[t].status_code = 200
        /\ outcome[t] = Return(PyFloat("12.5"))
        /\ issued = 1

\* C11: whatever calls were made and whatever was assigned to the address,
\* device_type, device_number and api_version fields of a facade, the facade
\* still holds the base address computed at construction, and every request,
\* recorded or in flight, targets that base address followed by "/" and the
\* attribute of the call.
C11_BaseAddressNeverRecomputed ==
    /\ \A f \in FacadeIds : obj[f].base_url = origin[f].base_url
    /\ \A t \in Callers :
           sent[t] # NoRequest
           => sent[t].url = origin[call[t].facade].base_url \o "/"
                                \o call[t].method.attribute
    /\ \A w \in wire :
           w.request.url = origin[call[w.caller].facade].base_url \o "/"
                               \o call[w.caller].method.attribute

\* A call entered on the telescope after all four of its fields were
\* reassigned has requested https://localhost:11111/api/v2/telescope/1/name.
C11_Witness ==
    \E t \in Callers :
        /\ pc[t] = "waiting"
        /\ call[t].facade = "scope"
        /\ call[t].self.address = "192.168.1.9"
        /\ call[t].self.device_type = "covercalibrator"
        /\ call[t].self.device_number = 7
        /\ call[t].self.api_version = 3
        /\ sent[t].url = "https://localhost:11111/api/v2/telescope/1/name"
        /\ [caller |-> t, request |-> sent[t]] \in wire

\* C12: two device identities (scheme, address, protocol version, category,
\* instance number) that differ in at least one field have different base
\* addresses.
C12_BaseAddressInjective ==
    (built.via = "pair" /\ built.first # built.second)
    => built.result.value[1].base_url # built.result.value[2].base_url

\* Version 1 with instance 11 and version 11 with instance 1, all else equal,
\* give http://10.0.0.5/api/v1/dome/11 and http://10.0.0.5/api/v11/dome/1.
C12_Witness ==
    /\ built.via = "pair"
    /\ built.first = [address |-> "10.0.0.5", device_type |-> "dome",
                      device_number |-> 11, protocall |-> "http",
                      api_version |-> 1]
    /\ built.second = [address |-> "10.0.0.5", device_type |-> "dome",
                       device_number |-> 1, protocall |-> "http",
                       api_version |-> 11]
    /\ built.result.value[1].base_url = "http://10.0.0.5/api/v1/dome/11"
    /\ built.result.value[2].base_url = "http://10.0.0.5/api/v11/dome/1"

\* C15: a read made twice in a row, with the same arguments on the same
\* facade, has sent the same request both times and, given the same response
\* both times, has produced the same value or the same failure both times;
\* the facade objects are as their constructors left them.
C15_ReadTwiceSameValue ==
    /\ obj = origin
    /\ \A t \in Callers :
           (/\ prev[t] # NoCall
            /\ call[t] = prev[t].call
            /\ call[t].method.verb = "_get")
           => /\ sent[t] = prev[t].sent
              /\ (Completed(t) /\ resp[t] = prev[t].resp)
                 => /\ inner[t] = prev[t].inner
                    /\ outcome[t] = prev[t].outcome

\* GetSwitch(1) made twice, answered both times with Value 12.5, has returned
\* 12.5 both times, after two requests.
C15_Witness ==
    \E t \in Callers :
        /\ prev[t] # NoCall
        /\ call[t] = prev[t].call
        /\ IsCall(t, "GetSwitch", "call")
        /\ call[t].args = <<PyInt(1)>>
        /\ Completed(t)
        /\ resp[t] = prev[t].resp
        /\ resp[t].status_code = 200
        /\ prev[t].outcome = Return(PyFloat("12.5"))
        /\ outcome[t] = Return(PyFloat("12.5"))
        /\ issued = 2

\* C19: two completed calls that received the same response, whatever their
\* facades, attributes and directions (read or write), agree on the
\* classification: one has raised a classification failure exactly if the
\* other has, and then both have raised the same kind with the same message.
C19_ClassificationUniform ==
    \A t \in Callers :
        (/\ prev[t] # NoCall
         /\ prev[t].resp # NoResponse
         /\ Completed(t)
         /\ resp[t] = prev[t].resp)
        => /\ IsClassificationFailure(inner[t])
                  <=> IsClassificationFailure(prev[t].inner)
           /\ IsClassificationFailure(inner[t]) => inner[t] = prev[t].inner
           /\ IsClassificationFailure(outcome[t])
                  <=> IsClassificationFailure(prev[t].outcome)
           /\ IsClassificationFailure(outcome[t]) => outcome[t] = prev[t].outcome

\* A read of the switch and then a write to the telescope, both answered
\* with status 200 and ErrorNumber 1025, have both raised NumericError
\* "Error 1025: Invalid switch id".
C19_Witness ==
    \E t \in Callers :
        /\ prev[t] # NoCall
        /\ prev[t].call.facade = "sw"
        /\ prev[t].call.method.verb = "_get"
        /\ call[t].facade = "scope"
        /\ call[t].method.verb = "_put"
        /\ Completed(t)
        /\ resp[t] = prev[t].resp
        /\ resp[t].status_code = 200
        /\ prev[t].inner = Raise("NumericError", "Error 1025: Invalid switch id")
        /\ outcome[t] = Raise("NumericError", "Error 1025: Invalid switch id")

\* The lower-cased name of every property of the facades.
LowerCased ==
    [Absolute |-> "absolute",
     AlignmentMode |-> "alignmentmode",
     Altitude |-> "altitude",
     ApertureArea |-> "aperturearea",
     ApertureDiameter |-> "aperturediameter",
     AtHome |-> "athome",
     AtPark |-> "atpark",
     Azimuth |-> "azimuth",
     BayerOffsetX |-> "bayeroffsetx",
     BayerOffsetY |-> "bayeroffsety",
     BinX |-> "binx",
     BinY |-> "biny",
     CCDTemperature |-> "ccdtemperature",
     CameraState |-> "camerastate",
     CameraXSize |-> "cameraxsize",
     CameraYSize |-> "cameraysize",
     CanAbortExposure |-> "canabortexposure",
     CanAsymmetricBin |-> "canasymmetricbin",
     CanFastReadout |-> "canfastreadout",
     CanFindHome |-> "canfindhome",
     CanGetCoolerPower |-> "cangetcoolerpower",
     CanPark |-> "canpark",
     CanPulseGuide |-> "canpulseguide",
     CanReverse |-> "canreverse",
     CanSetAltitude |-> "cansetaltitude",
     CanSetAzimuth |-> "cansetazimuth",
     CanSetCCDTemperature |-> "cansetccdtemperature",
     CanSetDeclinationRate |-> "cansetdeclinationrate",
     CanSetGuideRates |-> "cansetguiderates",
     CanSetPark |-> "cansetpark",
     CanSetPierSide |-> "cansetpierside",
     CanSetRightAscensionRate |-> "cansetrightascensionrate",
     CanSetShutter |-> "cansetshutter",
     CanSetTracking |-> "cansettracking",
     CanSlave |-> "canslave",
     CanSlew |-> "canslew",
     CanSlewAltAz |-> "canslewaltaz",
     CanSlewAltAzAsync |-> "canslewaltazasync",
     CanStopExposure |-> "canstopexposure",
     CanSync |-> "cansync",
     CanSyncAltAz |-> "cansyncaltaz",
     CanSyncAzimuth |-> "cansyncazimuth",
     CanUnpark |-> "canunpark",
     Connected |-> "connected",
     CoolerOn |-> "cooleron",
     CoolerPower |-> "coolerpower",
     Declination |-> "declination",
     DeclinationRate |-> "declinationrate",
     Description |-> "description",
     DoesRefraction |-> "doesrefraction",
     DriverInfo |-> "driverinfo",
     DriverVersion |-> "driverversion",
     ElectronsPerADU |-> "electronsperadu",
     EquatorialSystem |-> "equatorialsystem",
     ExposureMax |-> "exposuremax",
     ExposureMin |-> "exposuremin",
     ExposureResolution |-> "exposureresolution",
     FastReadout |-> "fastreadout",
     FocalLength |-> "focallength",
     FocusOffsets |-> "focusoffsets",
     FullWellCapacity |-> "fullwellcapacity",
     Gain |-> "gain",
     GainMax |-> "gainmax",
     GainMin |-> "gainmin",
     Gains |-> "gains",
     GuideRateDeclination |-> "guideratedeclination",
     GuideRateRightAscension |-> "guideraterightascension",
     HasShutter |-> "hasshutter",
     HeatSinkTemperature |-> "heatsinktemperature",
     ImageArray |-> "imagearray",
     ImageArrayVariant |-> "imagearrayvariant",
     ImageReady |-> "imageready",
     InterfaceVersion |-> "interfaceversion",
     IsMoving |-> "ismoving",
     IsPulseGuiding |-> "ispulseguiding",
     IsSafe |-> "issafe",
     LastExposureDuration |-> "lastexposureduration",
     LastExposureStartTime |-> "lastexposurestarttime",
     MaxADU |-> "maxadu",
     MaxBinX |-> "maxbinx",
     MaxBinY |-> "maxbiny",
     MaxIncrement |-> "maxincrement",
     MaxStep |-> "maxstep",
     MaxSwitch |-> "maxswitch",
     Name |-> "name",
     Names |-> "names",
     NumX |-> "numx",
     NumY |-> "numy",
     PercentCompleted |-> "percentcompleted",
     PixelSizeX |-> "pixelsizex",
     PixelSizeY |-> "pixelsizey",
     Position |-> "position",
     ReadoutMode |-> "readoutmode",
     ReadoutModes |-> "readoutmodes",
     Reverse |-> "reverse",
     RightAscension |-> "rightascension",
     RightAscensionRate |-> "rightascensionrate",
     SensorName |-> "sensorname",
     SensorType |-> "sensortype",
     SetCCDTemperature |-> "setccdtemperature",
     ShutterStatus |-> "shutterstatus",
     SideOfPier |-> "sideofpier",
     SiderealTime |-> "siderealtime",
     SiteElevation |-> "siteelevation",
     SiteLatitude |-> "sitelatitude",
     SiteLongitude |-> "sitelongitude",
     Slaved |-> "slaved",
     SlewSettleTime |-> "slewsettletime",
     Slewing |-> "slewing",
     StartX |-> "startx",
     StartY |-> "starty",
     StepSize |-> "stepsize",
     SupportedActions |-> "supportedactions",
     TargetDeclination |-> "targetdeclination",
     TargetPosition |-> "targetposition",
     TargetRightAscension |-> "targetrightascension",
     TempComp |-> "tempcomp",
     TempCompAvailable |-> "tempcompavailable",
     Temperature |-> "temperature",
     Tracking |-> "tracking",
     TrackingRate |-> "trackingrate",
     TrackingRates |-> "trackingrates",
     UTCDate |-> "utcdate"]
\* C16: every property getter has issued its read against the attribute whose
\* name is the lower-cased name of the property, on the base address of its
\* facade.
C16_GetterReadsOwnAttribute ==
    \A t \in Callers :
        (/\ call[t] # NoCall
         /\ call[t].method.access = "get"
         /\ sent[t] # NoRequest)
        => /\ sent[t].method = "GET"
           /\ sent[t].url = obj[call[t].facade].base_url \o "/"
                                \o LowerCased[call[t].method.name]

ReadAccessors ==
    {"CanWrite", "GetSwitch", "GetSwitchDescription", "GetSwitchName",
     "GetSwitchValue", "MinSwitchValue", "SwitchStep", "AxisRates",
     "CanMoveAxis", "DestinationSideOfPier"}

IsGetter(m) == m.access = "get" \/ (m.access = "call" /\ m.name \in ReadAccessors)

\* The one check a facade makes on its arguments: the UTCDate setter takes a
\* str or a datetime, and nothing else.
PassedValidation(t) ==
    ~(IsUTCDateSet(t) /\ call[t].args[1].type \notin {"str", "datetime"})

\* C18: the number of requests issued equals the number of calls that passed
\* local validation.  A call that passed it has issued one request, a GET
\* for a getter and a PUT for a setter or an action method, and at most that
\* one is in flight; a call that did not pass has issued none.
C18_OneRequestPerValidCall ==
    /\ issued = validated
    /\ \A t \in Callers :
           call[t] # NoCall
           => /\ rounds[t] = IF PassedValidation(t) THEN 1 ELSE 0
              /\ PassedValidation(t) <=> sent[t] # NoRequest
              /\ Cardinality({w \in wire : w.caller = t}) <= 1
              /\ pc[t] = "waiting"
                 <=> Cardinality({w \in wire : w.caller = t}) = 1
              /\ (PassedValidation(t) /\ IsGetter(call[t].method))
                 => sent[t].method = "GET"
              /\ (PassedValidation(t) /\ ~IsGetter(call[t].method))
                 => sent[t].method = "PUT"

\* After two calls that each issued a request, a third call, the UTCDate
\* setter given an int, has been refused: two requests for three calls.
C18_Witness ==
    \E t \in Callers :
        /\ IsUTCDateSet(t)
        /\ call[t].args[1] = PyInt(1704067200)
        /\ ~PassedValidation(t)
        /\ rounds[t] = 0
        /\ issued = 2
        /\ validated = 2

\* C26: the display text of a NumericError built from code N and message M
\* is "Error N: M", which is not M alone; the display text of an
\* ErrorMessage built from text T is T.
C26_DisplayText ==
    /\ built.via = "NumericError"
       => /\ built.text = "Error " \o ToString(built.args.ErrorNumber) \o ": "
                              \o built.args.ErrorMessage
          /\ built.text # built.args.ErrorMessage
    /\ built.via = "ErrorMessage" => built.text = built.args.Value

\* NumericError(1025, "Invalid switch id") displays
\* "Error 1025: Invalid switch id".
C26_Witness ==
    /\ built.via = "NumericError"
    /\ built.args = [ErrorNumber |-> 1025, ErrorMessage |-> "Invalid switch id"]
    /\ built.text = "Error 1025: Invalid switch id"

\* The number an integer literal denotes, for the literals descriptors hold.
LiteralValue(pieces) ==
    CASE pieces = <<"0">> -> 0
      [] pieces = <<"1", "2">> -> 12
      [] pieces = <<"0", "0", "7">> -> 7
      [] pieces = <<"-", "1">> -> -1
      [] pieces = <<" ", "3", " ">> -> 3
      [] pieces = <<"1", "_", "0">> -> 10

IntegerLiterals ==
    {<<"0">>, <<"1", "2">>, <<"0", "0", "7">>, <<"-", "1">>, <<" ", "3", " ">>,
     <<"1", "_", "0">>}

\* C27: whatever the factory returns is a facade with scheme http and
\* protocol version 1, whose instance number is the integer the third
\* component denotes, components after the third being ignored; a descriptor
\* with fewer than three components, or whose third component is no integer
\* literal, makes the factory raise.
C27_FactoryDefaultsAndArity ==
    built.via = "CreateClient"
    => LET parts == Split(built.name)
       IN  /\ built.result.kind = "return"
              => /\ Len(parts) >= 3
                 /\ parts[3] \in IntegerLiterals
                 /\ built.result.value.class \in
                        {"Switch", "SafetyMonitor", "Dome", "Camera",
                         "FilterWheel", "Telescope", "Rotator", "Focuser"}
                 /\ built.result.value.api_version = 1
                 /\ built.result.value.device_number = LiteralValue(parts[3])
                 /\ built.result.value.base_url =
                        "http://" \o Str(parts[2]) \o "/api/v1/"
                            \o WireName(Str(parts[1])) \o "/"
                            \o ToString(LiteralValue(parts[3]))
           /\ Len(parts) < 3 => built.result.kind = "raise"
           /\ (Len(parts) >= 3 /\ parts[3] \notin IntegerLiterals)
              => built.result.kind = "raise"

\* C28: the UTCDate setter has sent a request only for a value whose type is
\* exactly str or exactly datetime; given an instance of a subclass of
\* either, or a date without a time, it has raised TypeError and sent
\* nothing.
C28_UTCDateSetterExactTypes ==
    \A t \in Callers :
        IsUTCDateSet(t)
        => /\ sent[t] # NoRequest => call[t].args[1].type \in {"str", "datetime"}
           /\ call[t].args[1].type \in {"str subclass", "datetime subclass", "date"}
              => /\ outcome[t] = Raise("TypeError", "")
                 /\ sent[t] = NoRequest
                 /\ rounds[t] = 0
                 /\ pc[t] = "idle"
                 /\ \A w \in wire : w.caller # t

\* The setter given an instance of a subclass of datetime, as the first call
\* made, has raised TypeError with no request issued.
C28_Witness ==
    \E t \in Callers :
        /\ IsUTCDateSet(t)
        /\ call[t].args[1] = PyDatetimeSubclass(DateTime(2024, 1, 1, 0, 0, 0, 0, Naive))
        /\ outcome[t] = Raise("TypeError", "")
        /\ sent[t] = NoRequest
        /\ issued = 0

\* C25: a completed read answered with status 200 and a non-zero ErrorNumber
\* (with its ErrorMessage) has raised NumericError whether or not the body
\* holds a Value; a read answered with status 200 has returned a value, or
\* failed for want of a Value, only where ErrorNumber is zero.
C25_ErrorCodeBeforeValue ==
    \A t \in Callers :
        (/\ Completed(t)
         /\ call[t].method.verb = "_get"
         /\ resp[t].status_code = 200)
        => /\ (/\ HasKey(t, "ErrorNumber")
               /\ Decoded(t)["ErrorNumber"] # PyInt(0)
               /\ HasKey(t, "ErrorMessage"))
              => /\ inner[t].kind = "raise"
                 /\ inner[t].exc = "NumericError"
           /\ (inner[t].kind = "return" \/ inner[t] = Raise("KeyError", "Value"))
              => /\ HasKey(t, "ErrorNumber")
                 /\ Decoded(t)["ErrorNumber"] = PyInt(0)
           /\ inner[t].kind = "return"
              => /\ HasKey(t, "Value")
                 /\ inner[t].value = Decoded(t)["Value"]

\* A read answered 200 with ErrorNumber 1025, an ErrorMessage and no Value
\* has raised NumericError, not KeyError.
C25_Witness ==
    \E t \in Callers :
        /\ Completed(t)
        /\ call[t].method.verb = "_get"
        /\ resp[t].status_code = 200
        /\ HasKey(t, "ErrorNumber")
        /\ Decoded(t)["ErrorNumber"] = PyInt(1025)
        /\ ~HasKey(t, "Value")
        /\ inner[t] = Raise("NumericError", "Error 1025: Invalid switch id")

\* C23: a step that constructs an object, directly or through the factory
\* CreateClient, leaves the count of issued requests, the requests in flight
\* and every caller's recorded request as they were; and construction from
\* well-formed arguments succeeds.
C23_ConstructionIssuesNoRequest ==
    [][built' # built
       => /\ issued' = issued
          /\ wire' = wire
          /\ sent' = sent
          /\ validated' = validated
          /\ built'.via \in {"Device", "constructor", "defaults"}
             => built'.result.kind = "return"
          /\ (built'.via = "CreateClient"
              /\ IsDescriptorOf(built'.name, ClassNameComponents))
             => built'.result.kind = "return"]_vars

\* The factory has built a dome facade from "Dome/localhost:11111/12" and no
\* request was ever issued.
C23_Witness ==
    /\ built.via = "CreateClient"
    /\ built.result.kind = "return"
    /\ built.result.value.class = "Dome"
    /\ built.result.value.base_url = "http://localhost:11111/api/v1/dome/12"
    /\ issued = 0
    /\ wire = {}

\* C21: a completed call of any member, post-processing ones included, whose
\* response the classification refused (status 400 or 500, or status 200
\* with a non-zero ErrorNumber) has raised to its caller the failure the
\* classification raised, after the one request of the call and with none
\* left in flight.
C21_FailurePropagates ==
    \A t \in Callers :
        Completed(t)
        => /\ resp[t].status_code \in {400, 500}
              => outcome[t] = Raise("ErrorMessage", resp[t].body.text)
           /\ (/\ resp[t].status_code = 200
               /\ HasKey(t, "ErrorNumber")
               /\ Decoded(t)["ErrorNumber"] # PyInt(0)
               /\ HasKey(t, "ErrorMessage"))
              => outcome[t] = Raise("NumericError",
                                    "Error " \o ToString(Decoded(t)["ErrorNumber"].i)
                                        \o ": " \o Decoded(t)["ErrorMessage"].s)
           /\ IsClassificationFailure(inner[t])
              => /\ outcome[t] = inner[t]
                 /\ rounds[t] = 1
                 /\ issued = 1
                 /\ wire = {}

\* DriverInfo answered with status 400 and the text "Bad parameter" has
\* raised ErrorMessage "Bad parameter".
C21_Witness ==
    \E t \in Callers :
        /\ IsCall(t, "DriverInfo", "get")
        /\ Completed(t)
        /\ resp[t].status_code = 400
        /\ outcome[t] = Raise("ErrorMessage", "Bad parameter")
        /\ issued = 1

\* The pieces of a text between its commas, each without the blanks around
\* it, for the texts the server sends.
CommaSeparated(s) ==
    CASE s = "Alpaca Simulator, v0.1 " -> <<"Alpaca Simulator", "v0.1">>
      [] s = " a,, b ," -> <<"a", "", "b", "">>
      [] s = "2024-01-01T00:00:00" -> <<"2024-01-01T00:00:00">>

\* C30: on a successful read whose Value is a str, the DriverInfo getter has
\* returned the list of the Value's comma-separated pieces, each trimmed, in
\* order and with the empty ones kept, which is not the Value itself; every
\* getter other than DriverInfo and UTCDate has returned the Value unchanged.
C30_DriverInfoSplitsOthersPassThrough ==
    \A t \in Callers :
        (/\ Completed(t)
         /\ call[t].method.access = "get"
         /\ resp[t].status_code = 200
         /\ HasKey(t, "ErrorNumber")
         /\ Decoded(t)["ErrorNumber"] = PyInt(0)
         /\ HasKey(t, "Value"))
        => /\ (call[t].method.name = "DriverInfo" /\ Decoded(t)["Value"].type = "str")
              => LET pieces == CommaSeparated(Decoded(t)["Value"].s)
                 IN  /\ outcome[t] =
                            Return(PyList([k \in 1..Len(pieces) |-> PyStr(pieces[k])]))
                     /\ outcome[t] # Return(Decoded(t)["Value"])
           /\ call[t].method.name \notin {"DriverInfo", "UTCDate"}
              => outcome[t] = Return(Decoded(t)["Value"])

\* DriverInfo reading " a,, b ," has returned ["a", "", "b", ""].
C30_Witness ==
    \E t \in Callers :
        /\ IsCall(t, "DriverInfo", "get")
        /\ Completed(t)
        /\ HasKey(t, "Value")
        /\ Decoded(t)["Value"] = PyStr(" a,, b ,")
        /\ outcome[t] = Return(PyList(<<PyStr("a"), PyStr(""), PyStr("b"), PyStr("")>>))

\* Caller t has read the clock right after an accepted write of the
\* datetime d, and the server answered the read with the str written.
ReadBack(t) ==
    /\ prev[t] # NoCall
    /\ prev[t].call.method.name = "UTCDate"
    /\ prev[t].call.method.access = "set"
    /\ prev[t].call.args[1].type = "datetime"
    /\ prev[t].outcome = Return(PyNone)
    /\ IsCall(t, "UTCDate", "get")
    /\ Completed(t)
    /\ resp[t].status_code = 200
    /\ HasKey(t, "ErrorNumber")
    /\ Decoded(t)["ErrorNumber"] = PyInt(0)
    /\ HasKey(t, "Value")
    /\ Decoded(t)["Value"] = prev[t].sent.data[1][2]

\* C29: the UTCDate getter, reading back the str the UTCDate setter sent for
\* a datetime d, has returned a datetime equal to d.
C29_UTCDateRoundTrip ==
    \A t \in Callers :
        ReadBack(t) => outcome[t] = Return(prev[t].call.args[1])

\* C22: with two callers interleaved in any way, each call has its own
\* request, to the base address of its own facade and in flight exactly
\* while its caller waits; each completed call has the classification and
\* the value of its own response; and the facade objects are as constructed.
C22_CallsIndependent ==
    /\ obj = origin
    /\ Cardinality(wire) = Cardinality({t \in Callers : pc[t] = "waiting"})
    /\ \A t \in Callers :
           /\ sent[t] # NoRequest
              => sent[t].url = obj[call[t].facade].base_url \o "/"
                                   \o call[t].method.attribute
           /\ pc[t] = "waiting" <=> [caller |-> t, request |-> sent[t]] \in wire
           /\ (Completed(t) /\ Decoded(t)["ErrorNumber"] # PyInt(0))
              => outcome[t] =
                     Raise("NumericError",
                           "Error " \o ToString(Decoded(t)["ErrorNumber"].i)
                               \o ": " \o Decoded(t)["ErrorMessage"].s)
           /\ (/\ Completed(t)
               /\ Decoded(t)["ErrorNumber"] = PyInt(0)
               /\ call[t].method.post = "result")
              => outcome[t] = Return(Decoded(t)["Value"])

\* Both callers read switch 0 of the same facade at the same time: the one
\* answered with ErrorNumber 1025 has raised NumericError while the other,
\* answered with Value 12.5, has not yet returned.
C22_Witness ==
    /\ call["c1"] # NoCall
    /\ call["c2"] = call["c1"]
    /\ IsCall("c1", "GetSwitch", "call")
    /\ Completed("c1")
    /\ outcome["c1"] = Raise("NumericError", "Error 1025: Invalid switch id")
    /\ pc["c2"] = "responded"
    /\ resp["c2"].status_code = 200
    /\ Decoded("c2")["Value"] = PyFloat("12.5")
    /\ issued = 2

\* C24: a caller has no outcome while its round trip is outstanding, a call
\* that sent a request has ended only after a response or a transport failure
\* was received, and, the transport delivering eventually, every call that
\* waits ends by returning a value or raising a failure.
C24_SynchronousAndTerminates ==
    /\ [](\A t \in Callers :
              /\ pc[t] \in {"waiting", "responded"} => outcome[t] = NoResult
              /\ (pc[t] = "idle" /\ sent[t] # NoRequest)
                 => /\ outcome[t].kind \in {"return", "raise"}
                    /\ \/ resp[t] # NoResponse
                       \/ /\ outcome[t].kind = "raise"
                          /\ outcome[t].exc \in TransportFailures)
    /\ \A t \in Callers :
           (pc[t] = "waiting")
               ~> (pc[t] = "idle" /\ outcome[t].kind \in {"return", "raise"})

\* One call ended by returning the Value of its response and another by the
\* transport's ConnectionError.
C24_Witness ==
    /\ Completed("c1")
    /\ outcome["c1"] = Return(PyFloat("12.5"))
    /\ pc["c2"] = "idle"
    /\ sent["c2"] # NoRequest
    /\ resp["c2"] = NoResponse
    /\ outcome["c2"] = Raise("ConnectionError", "")

====
